---------------------------- MODULE Spec2Model ----------------------------
(***************************************************************************)
(* A model of the data-acquisition layer of nseapi:                        *)
(*   - fetch_data_from_nse, the retrying JSON fetch (src/nseapi/__init__)  *)
(*   - get_bhavcopy, the archive download pipeline  (src/nseapi/__init__)  *)
(*   - _split_date_range, the date-range chunker                           *)
(*   - get_historical_equity_data, get_historical_index_data               *)
(*   - get_stock_quote, get_option_chain                                   *)
(* Network answers, payloads and filesystem failures are chosen by the     *)
(* environment; everything else is translated from the Python source.      *)
(***************************************************************************)
EXTENDS Integers, Sequences, FiniteSets, TLC

VARIABLES
    \* ---- fetch_data_from_nse -------------------------------------------
    retries,        \* argument `retries`
    delay,          \* argument `delay`
    new_requests,   \* installed `requests` >= 2.27: Response.json() raises a RequestException
    attempt,        \* loop variable of `for attempt in range(retries)`
    fpc,            \* position inside fetch_data_from_nse
    exc,            \* the exception being handled by the except clause
    errs,           \* per attempt: the error that ended it, NoError for a success
    io,             \* every GET issued and every sleep performed, in order
    jar,            \* session.cookies: number of times the jar was refreshed
    fret            \* outcome of the call

VARIABLES
    \* ---- get_bhavcopy ---------------------------------------------------
    bhavcopy_type,  \* argument `bhavcopy_type`
    date,           \* argument `date`
    dir_exists,     \* whether target_directory exists on disk
    files,          \* the files of target_directory: name -> content
    bpc,            \* position inside get_bhavcopy
    url,            \* local `url`
    content,        \* response.content of the download
    extracted,      \* local `extracted_file_path`
    bnet,           \* every GET issued and every sleep performed by the call
    bexc,           \* the exception raised inside the call, before translation
    bret,           \* outcome of the call
    ncalls,         \* number of invocations so far (same arguments each time)
    seen,           \* (exception raised, error surfaced) of every failed invocation
    extras          \* names of the archive members extracted besides namelist()[0]

VARIABLES
    \* ---- _split_date_range ----------------------------------------------
    from_date,      \* argument `from_date`, a proleptic Gregorian ordinal
    to_date,        \* argument `to_date`
    max_chunk_size, \* argument `max_chunk_size`
    current_start,  \* local `current_start`
    chunks,         \* local `chunks`
    spc,            \* position inside _split_date_range
    sret            \* outcome of the call

VARIABLES
    \* ---- get_historical_equity_data, get_historical_index_data ----------
    hfn,               \* which function is called: "equity", "index" (historical
                       \* data), "corporate_actions", "announcements", "bulk_deals"
    series,            \* argument `series` (equity)
    hpc,               \* position inside the function
    chunk_idx,         \* position of the for loop in date_chunks
    all_data,          \* local `all_data` (equity), `all_price_data` (index)
    all_turnover_data, \* local `all_turnover_data` (index)
    hnet,              \* every call of fetch_data_from_nse made, with its result
    hcalls,            \* the loop over date_chunks: every call of fetch_data_from_nse
                       \* and every end of one (with the HTTP attempts it made)
    hret               \* outcome of the call

VARIABLES
    \* ---- get_stock_quote, get_option_chain -------------------------------
    qfn,            \* which function is called (get_equity_metadata included)
    symbol,         \* argument `symbol`
    qpc,            \* position inside the function
    qret            \* outcome of the call

VARIABLES
    \* ---- two callers of fetch_data_from_nse on the module's session ------
    cpc,            \* per caller: position inside fetch_data_from_nse
    cattempt,       \* per caller: loop variable `attempt`
    cboot,          \* per caller: the jar as its latest bootstrap left it
    clog            \* every GET issued by either caller, in order

fetch_vars == <<retries, delay, new_requests, attempt, fpc, exc, errs, io, fret>>

bhav_vars == <<bhavcopy_type, date, dir_exists, files, bpc, url, content,
               extracted, bnet, bexc, bret, ncalls, seen, extras>>

split_vars == <<from_date, to_date, max_chunk_size, current_start, chunks, spc, sret>>

hist_vars ==
    <<hfn, series, hpc, chunk_idx, all_data, all_turnover_data, hnet, hcalls, hret>>

quote_vars == <<qfn, symbol, qpc, qret>>

race_vars == <<cpc, cattempt, cboot, clog>>

vars == <<fetch_vars, jar, bhav_vars, split_vars, hist_vars, quote_vars, race_vars>>

-----------------------------------------------------------------------------
(* Bounds of the model *)

MaxRetries == 3
MaxDelay == 2
MaxCalls == 2
YearSpan == 1
MaxSpan == 4
MaxChunk == 3
MaxPage == 3

RetriesArgs == (0 - 1)..MaxRetries
DelayArgs == 0..MaxDelay

-----------------------------------------------------------------------------
(* Values *)

\* Two route handlers of the backend, each in a thread of its own:
\* market_status() calls get_market_status(), stock_quote() get_stock_quote().
Callers == {"market_status", "stock_quote"}

NoError == [kind |-> "none", msg |-> "none"]

\* Messages the environment attaches to an error; two, so that the errors of
\* different attempts can differ.
Msgs == {"m1", "m2"}

\* requests.ConnectionError, requests.Timeout: raised by session.get itself.
TransportKinds == {"ConnectionError", "Timeout"}

\* Subclasses of requests.RequestException the except clause catches.
RequestExceptionKinds ==
    TransportKinds \cup {"HTTPError", "RequestsJSONDecodeError"}

\* Variant: the except clause catches every exception (`except Exception`).
IsRequestException_Everything(e) == TRUE

\* `except requests.RequestException as e`
IsRequestException(e) == e.kind \in RequestExceptionKinds

HttpStatuses == {200, 404, 503}

\* Response bodies the origin can send for any endpoint.
PlainBodies == {"{\"key\": \"value\"}", "null", "<html>blocked</html>"}

\* Response bodies of the endpoints quote-equity and option-chain-*.
QuoteBodies ==
    {"{\"info\": {\"symbol\": \"INFY\"}, \"priceInfo\": {\"lastPrice\": 1}}",
     "{\"info\": {\"symbol\": \"INFY\"}}",
     "{\"records\": {\"data\": []}}"}

\* Response bodies of the endpoint equity-meta-info.
MetaBodies ==
    {"{\"symbol\": \"TCS\", \"companyName\": \"Tata Consultancy Services\"}",
     "{\"symbol\": \"TCS\"}",
     "{}"}

\* Response bodies the origin can send for the endpoint of the call.
Bodies ==
    IF qpc = "idle" THEN PlainBodies
    ELSE IF qfn = "get_equity_metadata" THEN PlainBodies \cup MetaBodies
    ELSE PlainBodies \cup QuoteBodies

\* response.json(): the Python value of a body, or a parse failure.
ParseJson(body) ==
    CASE body = "{\"key\": \"value\"}" -> [ok |-> TRUE, value |-> "{'key': 'value'}"]
      [] body = "null" -> [ok |-> TRUE, value |-> "None"]
      [] body = "{\"info\": {\"symbol\": \"INFY\"}, \"priceInfo\": {\"lastPrice\": 1}}" ->
            [ok |-> TRUE, value |-> "{'info': {'symbol': 'INFY'}, 'priceInfo': {'lastPrice': 1}}"]
      [] body = "{\"info\": {\"symbol\": \"INFY\"}}" ->
            [ok |-> TRUE, value |-> "{'info': {'symbol': 'INFY'}}"]
      [] body = "{\"records\": {\"data\": []}}" ->
            [ok |-> TRUE, value |-> "{'records': {'data': []}}"]
      [] body = "{\"symbol\": \"TCS\", \"companyName\": \"Tata Consultancy Services\"}" ->
            [ok |-> TRUE, value |-> "{'symbol': 'TCS', 'companyName': 'Tata Consultancy Services'}"]
      [] body = "{\"symbol\": \"TCS\"}" -> [ok |-> TRUE, value |-> "{'symbol': 'TCS'}"]
      [] body = "{}" -> [ok |-> TRUE, value |-> "{}"]
      [] OTHER -> [ok |-> FALSE, value |-> "None"]

\* The exception response.json() raises on a body that is not JSON:
\* requests.exceptions.JSONDecodeError (a RequestException) from requests 2.27
\* on, json.JSONDecodeError (a ValueError) before.
JsonErrorKind == IF new_requests THEN "RequestsJSONDecodeError" ELSE "ValueError"

\* response.raise_for_status(): raises HTTPError for 4xx and 5xx.
RaisesForStatus(status) == 400 <= status /\ status < 600

NoResponse == [status |-> 0, body |-> "null"]

Event(op, ok, resp) ==
    [op |-> op, attempt |-> attempt, secs |-> 0, ok |-> ok, jar |-> jar, resp |-> resp]

SleepEvent(secs) ==
    [op |-> "sleep", attempt |-> attempt, secs |-> secs, ok |-> TRUE, jar |-> jar,
     resp |-> NoResponse]

\* Response.__bool__ is Response.ok: a response is true when raise_for_status()
\* would not raise.
ResponseIsTrue(resp) == ~RaisesForStatus(resp.status)

Running == [status |-> "running", value |-> "None", error |-> NoError]
Returned(v) == [status |-> "returned", value |-> v, error |-> NoError]
Raised(e) == [status |-> "raised", value |-> "None", error |-> e]

\* The outcome of get_stock_quote / get_option_chain; `detail` is what the
\* message is formatted with (the symbol, or the exception wrapped).
QNoError == [kind |-> "none", msg |-> "none", detail |-> "none"]
QError(kind, msg, detail) == [kind |-> kind, msg |-> msg, detail |-> detail]
QRunning == [status |-> "running", value |-> "None", error |-> QNoError]
QReturned(v) == [status |-> "returned", value |-> v, error |-> QNoError]
QRaised(e) == [status |-> "raised", value |-> "None", error |-> e]

-----------------------------------------------------------------------------
(* Dates and their strftime renderings, as sequences of characters/tokens *)

\* `if date.year >= 2024` (get_bhavcopy, download_bhavcopy)
CutoffYear == 2024

Years == (CutoffYear - YearSpan)..(CutoffYear + YearSpan)

\* First and last day of the first and last month of each year.
Dates == {[year |-> y, month |-> m, day |-> d] : y \in Years, m \in {1, 12}, d \in {1, 31}}

DigitChars == <<"0", "1", "2", "3", "4", "5", "6", "7", "8", "9">>
Digit(n) == DigitChars[n + 1]

\* %d, %m: two digits, zero padded
Pad2(n) == <<Digit(n \div 10), Digit(n % 10)>>

\* %Y: four digits
Y4(y) == <<Digit(y \div 1000), Digit((y \div 100) % 10), Digit((y \div 10) % 10), Digit(y % 10)>>

\* %y: the last two digits of the year
Y2(y) == Pad2(y % 100)

\* %b upper-cased
MonthAbbr ==
    <<"JAN", "FEB", "MAR", "APR", "MAY", "JUN", "JUL", "AUG", "SEP", "OCT", "NOV", "DEC">>
MON(m) == <<MonthAbbr[m]>>

\* date.strftime('%Y%m%d')
Ymd(d) == Y4(d.year) \o Pad2(d.month) \o Pad2(d.day)

\* date.strftime('%d%m%Y')
Dmy(d) == Pad2(d.day) \o Pad2(d.month) \o Y4(d.year)

\* date.strftime('%d%m%y')
Dmy2(d) == Pad2(d.day) \o Pad2(d.month) \o Y2(d.year)

\* date.strftime('%d%b%Y').upper()
DMonY(d) == Pad2(d.day) \o MON(d.month) \o Y4(d.year)

-----------------------------------------------------------------------------
(* datetime.date as a proleptic Gregorian ordinal; date + timedelta *)

\* date.min.toordinal() and date.max.toordinal(): date arithmetic that leaves
\* this range raises OverflowError("date value out of range").
DateMin == 1
DateMax == 3652059

MidDay == (DateMin + DateMax) \div 2

InDateRange(n) == DateMin <= n /\ n <= DateMax

\* The dates a caller passes: runs of MaxSpan + 1 days at date.min, in the
\* middle of the range and at date.max.
DateWindows ==
    {DateMin..(DateMin + MaxSpan), MidDay..(MidDay + MaxSpan), (DateMax - MaxSpan)..DateMax}

\* def _split_date_range(from_date, to_date, max_chunk_size: int = 100)
DefaultChunkSize == 100

\* max_chunk_size=365 in get_historical_index_data
IndexChunkSize == 365

\* The chunk sizes a caller passes: small ones of either sign, the two the
\* library itself uses, and one longer than the whole date range.
ChunkSizeArgs ==
    ((0 - MaxChunk)..MaxChunk) \cup {DefaultChunkSize, IndexChunkSize, DateMax}

SRunning == [status |-> "running", chunks |-> <<>>, error |-> NoError]
SReturned(c) == [status |-> "returned", chunks |-> c, error |-> NoError]
SRaised(e) == [status |-> "raised", chunks |-> <<>>, error |-> e]

-----------------------------------------------------------------------------
(* Historical data: records, pages and what a fetch gives back *)

\* A record is identified by its date (mTIMESTAMP), an ordinal.

SetMin(S) == CHOOSE x \in S : \A y \in S : x <= y
SetMax(S) == CHOOSE x \in S : \A y \in S : x >= y

\* The dates of S, oldest first / newest first.
RECURSIVE Ascending(_)
Ascending(S) == IF S = {} THEN <<>> ELSE <<SetMin(S)>> \o Ascending(S \ {SetMin(S)})

RECURSIVE Descending(_)
Descending(S) == IF S = {} THEN <<>> ELSE <<SetMax(S)>> \o Descending(S \ {SetMax(S)})

\* The pages the origin can send out of the dates S: any of them, newest
\* first or oldest first.
Pages(S) == {Descending(T) : T \in SUBSET S} \cup {Ascending(T) : T \in SUBSET S}

\* The dates the origin has records for, out of the days s..e: the first
\* MaxPage - 1 days and the last one.
Sample(s, e) == {d \in s..e : d - s < MaxPage - 1 \/ d = e}

\* The result of one call of fetch_data_from_nse, as its caller sees it:
\*   raise  - the call raised (retries exhausted, or the body was not JSON)
\*   none   - it returned None (the body was `null`) or an empty object
\*   nodata - it returned an object without the key "data"
\*   page   - it returned an object with "data"; `keys` are the keys of data
\*            for the index endpoint.
FetchRaised == [kind |-> "raise", keys |-> {}, data |-> <<>>, turnover |-> <<>>]
FetchedNone == [kind |-> "none", keys |-> {}, data |-> <<>>, turnover |-> <<>>]
FetchedNoData == [kind |-> "nodata", keys |-> {}, data |-> <<>>, turnover |-> <<>>]
FetchedPage(keys, data, turnover) ==
    [kind |-> "page", keys |-> keys, data |-> data, turnover |-> turnover]

\* historical/cm/equity without from/to: the recent records, whatever the
\* range asked for is.
ShortResults(from, to) ==
    {FetchRaised, FetchedNone, FetchedNoData}
      \cup {FetchedPage({}, pg, <<>>) : pg \in Pages({from - 1, from, to, to + 1})}

\* historical/cm/equity with from/to: records of the days of the chunk.
EquityResults(c) ==
    {FetchRaised, FetchedNone, FetchedNoData}
      \cup {FetchedPage({}, pg, <<>>) : pg \in Pages(Sample(c[1], c[2]))}

\* historical/indicesHistory: data may hold indexCloseOnlineRecords and
\* indexTurnoverRecords.
IndexResults(c) ==
    {FetchRaised, FetchedNone, FetchedNoData}
      \cup {FetchedPage({}, <<>>, <<>>)}
      \cup {FetchedPage({"indexCloseOnlineRecords"}, pg, <<>>) : pg \in Pages({c[1], c[2]})}
      \cup {FetchedPage({"indexTurnoverRecords"}, <<>>, t) : t \in {<<>>, <<c[2]>>}}
      \cup {FetchedPage({"indexCloseOnlineRecords", "indexTurnoverRecords"}, pg, t) :
               pg \in Pages({c[1], c[2]}), t \in {<<>>, <<c[2]>>}}

NoChunk == <<>>
HEvent(path, chunk, result) == [path |-> path, chunk |-> chunk, result |-> result]

HRunning == [status |-> "running", data |-> <<>>, turnover |-> <<>>, error |-> NoError]
HReturned(d, t) == [status |-> "returned", data |-> d, turnover |-> t, error |-> NoError]
HRaised(e) == [status |-> "raised", data |-> <<>>, turnover |-> <<>>, error |-> e]

-----------------------------------------------------------------------------
(* get_bhavcopy: URL templates *)

BhavTypes == {"equity", "delivery", "indices", "fno", "priceband", "pr", "cm_mii"}

\* The report types a caller can pass: the seven known ones and an unknown one.
TypeArgs == BhavTypes \cup {"invalid_type"}

ZipTypes == {"equity", "fno", "pr"}

NoUrl == <<>>

\* Variant: the cutoff year itself still uses the legacy template.
PostCutoff_Strict(d) == d.year > CutoffYear

\* `if date.year >= 2024:` selects the BhavCopy_NSE_CM template
PostCutoff(d) == d.year >= CutoffYear

EquityUrlNew(d) ==
    <<"https://nsearchives.nseindia.com/content/cm/", "BhavCopy_NSE_CM_0_0_0_">>
        \o Ymd(d) \o <<"_F_0000.csv.zip">>

EquityUrlLegacy(d) ==
    <<"https://nsearchives.nseindia.com/content/historical/", "EQUITIES/">>
        \o Y4(d.year) \o <<"/">> \o MON(d.month) \o <<"/", "cm">>
        \o DMonY(d) \o <<"bhav.csv.zip">>

BhavUrl(t, d) ==
    CASE t = "equity" -> IF PostCutoff(d) THEN EquityUrlNew(d) ELSE EquityUrlLegacy(d)
      [] t = "delivery" ->
            <<"https://nsearchives.nseindia.com/products/content/", "sec_bhavdata_full_">>
                \o Dmy(d) \o <<".csv">>
      [] t = "indices" ->
            <<"https://www1.nseindia.com/content/indices/", "ind_close_all_">>
                \o Dmy(d) \o <<".csv">>
      [] t = "fno" ->
            <<"https://nsearchives.nseindia.com/content/fo/", "BhavCopy_NSE_FO_0_0_0_">>
                \o Ymd(d) \o <<"_F_0000.csv.zip">>
      [] t = "priceband" ->
            <<"https://nsearchives.nseindia.com/content/equities/", "sec_list_">>
                \o Dmy(d) \o <<".csv">>
      [] t = "pr" ->
            <<"https://nsearchives.nseindia.com/archives/equities/bhavcopy/pr/", "PR">>
                \o Dmy2(d) \o <<".zip">>
      [] t = "cm_mii" ->
            <<"https://nsearchives.nseindia.com/content/cm/", "NSE_CM_security_">>
                \o Dmy(d) \o <<".csv.gz">>

\* download_bhavcopy (nseapi/market.py): the same two equity templates
download_bhavcopy_url(d) ==
    IF d.year >= CutoffYear
      THEN <<"https://nsearchives.nseindia.com/content/cm/", "BhavCopy_NSE_CM_0_0_0_">>
               \o Ymd(d) \o <<"_F_0000.csv.zip">>
      ELSE <<"https://nsearchives.nseindia.com/content/historical/", "EQUITIES/">>
               \o Y4(d.year) \o <<"/">> \o MON(d.month) \o <<"/", "cm">>
               \o DMonY(d) \o <<"bhav.csv.zip">>

-----------------------------------------------------------------------------
(* get_bhavcopy: files and payloads *)

\* file_name = f"{bhavcopy_type}_bhavcopy_{date.strftime('%Y%m%d')}" and
\* Path.with_suffix: the stem has no dot, the suffix is appended.
FileName(t, d, suffix) == <<t, "_bhavcopy_">> \o Ymd(d) \o <<suffix>>

\* The name the origin gives the file inside a ZIP archive: the name of the
\* archive without ".zip" for equity, a name of its own for fno and pr.
OriginInner(t, d) ==
    IF t = "equity"
      THEN IF PostCutoff(d)
             THEN <<"BhavCopy_NSE_CM_0_0_0_">> \o Ymd(d) \o <<"_F_0000.csv">>
             ELSE <<"cm">> \o DMonY(d) \o <<"bhav.csv">>
      ELSE <<"BhavCopy_NSE_">> \o Ymd(d) \o <<".csv">>
SecondInner == <<"readme.txt">>

Data == {"d1", "d2"}

Blob(fmt, members, data) == [fmt |-> fmt, members |-> members, data |-> data]
RawBytes(data) == Blob("raw", <<>>, data)
Member(n, data) == [name |-> n, data |-> data]
NoContent == Blob("none", <<>>, "")

\* What the origin can answer a download with: CSV text, an HTML page, a ZIP
\* archive of zero, one or two files, a GZIP stream, a truncated GZIP stream.
Payloads(t, d) ==
    {RawBytes(x) : x \in Data}
      \cup {Blob("html", <<>>, "blocked")}
      \cup {Blob("zip", <<>>, "")}
      \cup {Blob("zip", <<Member(n, x)>>, "") :
               n \in {OriginInner(t, d), FileName(t, d, ".csv")}, x \in Data}
      \cup {Blob("zip", <<Member(OriginInner(t, d), x), Member(SecondInner, x)>>, "") : x \in Data}
      \cup {Blob("gz", <<>>, x) : x \in Data}
      \cup {Blob("gz_truncated", <<>>, "d1")}

EmptyDir == [n \in {} |-> NoContent]

\* Variant: a file that exists is not overwritten.
WriteFile_KeepExisting(fs, n, c) ==
    [m \in (DOMAIN fs) \cup {n} |-> IF m \in DOMAIN fs THEN fs[m] ELSE c]

\* open(name, "wb") and write: the file is created or replaced.
WriteFile(fs, n, c) == [m \in (DOMAIN fs) \cup {n} |-> IF m = n THEN c ELSE fs[m]]
RemoveFile(fs, n) == [m \in (DOMAIN fs) \ {n} |-> fs[m]]

\* Variant: the file is copied; the source name stays.
RenameFile_Copy(fs, a, b) == WriteFile(fs, b, fs[a])

\* os.rename(a, b): the file is moved, replacing b.
RenameFile(fs, a, b) == WriteFile(RemoveFile(fs, a), b, fs[a])

\* zip_ref.extractall(target_directory) of the first k members
RECURSIVE ExtractMembers(_, _, _)
ExtractMembers(fs, members, k) ==
    IF k = 0 THEN fs
    ELSE WriteFile(ExtractMembers(fs, members, k - 1), members[k].name,
                   RawBytes(members[k].data))

\* The members among the first k that are not namelist()[0].
ExtraNames(members, k) == {members[i].name : i \in 2..k}

-----------------------------------------------------------------------------
(* get_bhavcopy: errors *)

OSError == [kind |-> "OSError", msg |-> "errno"]

\* The except clauses of get_bhavcopy, in their order:
\*   requests.exceptions.RequestException -> FileNotFoundError("Failed to download ...")
\*   (zipfile.BadZipFile, gzip.BadGzipFile) -> RuntimeError("Invalid file received: ...")
\*   OSError                              -> RuntimeError("File operation failed: ...")
\* anything else propagates as it is.
Translate(e) ==
    IF e.kind \in RequestExceptionKinds
      THEN [kind |-> "FileNotFoundError", msg |-> "Failed to download"]
    ELSE IF e.kind \in {"BadZipFile", "BadGzipFile"}
      THEN [kind |-> "RuntimeError", msg |-> "Invalid file received"]
    ELSE IF e.kind \in {"OSError", "BadGzipFile"}  \* BadGzipFile subclasses OSError
      THEN [kind |-> "RuntimeError", msg |-> "File operation failed"]
    ELSE e

BRunning == [status |-> "running", path |-> <<>>, error |-> NoError]
BReturned(p) == [status |-> "returned", path |-> p, error |-> NoError]
BRaised(e) == [status |-> "raised", path |-> <<>>, error |-> e]

BEvent(op, ok) == [op |-> op, ok |-> ok]

-----------------------------------------------------------------------------
(* fetch_data_from_nse *)

\* def fetch_data_from_nse(endpoint, params=None, retries=3, delay=2, timeout=10)
DefaultRetries == 3
DefaultDelay == 2

\* Variant: the loop runs one iteration short, range(retries - 1).
InRange_OneShort == attempt < retries - 1

\* Variant: the loop body runs once before the count is looked at.
InRange_AtLeastOnce == attempt = 0 \/ attempt < retries

\* `for attempt in range(retries)`: the loop body runs while attempt < retries.
InRange == attempt < retries

\* Variant: cookies are fetched on the first attempt only.
RefreshCookies_FirstOnly == attempt = 0

\* `if attempt == 0 or attempt > 0: _fetch_cookies()`
RefreshCookies == attempt = 0 \/ attempt > 0

\* Variant: the last attempt also sleeps instead of raising.
AttemptsRemain_OneMore == attempt < retries

\* `if attempt < retries - 1: sleep(delay) else: raise`
AttemptsRemain == attempt < retries - 1

\* `sleep(delay)`
SleepSecs == delay

\* Variant: the error of the first attempt is raised at the end.
Reraised_First == errs[1]

\* bare `raise` inside the except clause: the exception being handled.
Reraised == exc

\* Variant: a failed bootstrap is swallowed and the data GET is still issued.
AfterCookieError_Swallowed == "get"

\* An exception raised by _fetch_cookies() inside the try block goes to the
\* except clause (it is a RequestException: session.get raised it).
AfterCookieError == "except"

\* Variant: a parsed response is not returned; the attempt is handled as failed.
ReturnJson_KeepsGoing(value) == [pc |-> "except", ret |-> fret]

\* `logger.info(...); return response.json()`: the call ends with the value.
ReturnJson(value) == [pc |-> "done", ret |-> Returned(value)]

FetchInit ==
    /\ retries \in RetriesArgs
    /\ delay \in DelayArgs
    /\ new_requests \in BOOLEAN
    /\ attempt = 0
    /\ fpc = "loop"
    /\ exc = NoError
    /\ errs = <<>>
    /\ io = <<>>
    /\ jar = 0
    /\ fret = Running
    \* no call of get_bhavcopy is in progress
    /\ bhavcopy_type = "equity"
    /\ date = [year |-> CutoffYear, month |-> 1, day |-> 1]
    /\ dir_exists = TRUE
    /\ files = EmptyDir
    /\ bpc = "idle"
    /\ url = NoUrl
    /\ content = NoContent
    /\ extracted = <<>>
    /\ bnet = <<>>
    /\ bexc = NoError
    /\ bret = BRunning
    /\ ncalls = 0
    /\ seen = {}
    /\ extras = {}
    \* no call of _split_date_range is in progress
    /\ from_date = DateMin
    /\ to_date = DateMin
    /\ max_chunk_size = DefaultChunkSize
    /\ current_start = DateMin
    /\ chunks = <<>>
    /\ spc = "idle"
    /\ sret = SRunning
    \* no call of a historical-data function is in progress
    /\ hfn = "equity"
    /\ series = <<"EQ">>
    /\ hpc = "idle"
    /\ chunk_idx = 1
    /\ all_data = <<>>
    /\ all_turnover_data = <<>>
    /\ hnet = <<>>
    /\ hcalls = <<>>
    /\ hret = HRunning
    \* no two callers run concurrently
    /\ cpc = [c \in Callers |-> "idle"]
    /\ cattempt = [c \in Callers |-> 0]
    /\ cboot = [c \in Callers |-> 0]
    /\ clog = <<>>
    \* no call of get_stock_quote or get_option_chain is in progress
    /\ qfn = "get_stock_quote"
    /\ symbol = "INFY"
    /\ qpc = "idle"
    /\ qret = QRunning

\* Loop head: next iteration, or the loop ends without return or raise and the
\* function falls off its end (returns None).
LoopHead ==
    /\ fpc = "loop"
    /\ IF InRange
         THEN /\ fpc' = IF RefreshCookies THEN "cookies" ELSE "get"
              /\ fret' = fret
         ELSE /\ fpc' = "done"
              /\ fret' = Returned("None")
    /\ UNCHANGED <<retries, delay, new_requests, attempt, exc, errs, io, jar, bhav_vars, split_vars, hist_vars, quote_vars, race_vars>>

\* _fetch_cookies(): session.get(option-chain page); the jar is refreshed.
FetchCookiesOk ==
    /\ fpc = "cookies"
    /\ io' = Append(io, Event("cookies", TRUE, NoResponse))
    /\ jar' = jar + 1
    /\ fpc' = "get"
    /\ UNCHANGED <<retries, delay, new_requests, attempt, exc, errs, fret, bhav_vars, split_vars, hist_vars, quote_vars, race_vars>>

\* _fetch_cookies(): session.get raises a transport error.
FetchCookiesFail ==
    /\ fpc = "cookies"
    /\ \E k \in TransportKinds, m \in Msgs :
          /\ exc' = [kind |-> k, msg |-> m]
          /\ errs' = Append(errs, [kind |-> k, msg |-> m])
    /\ io' = Append(io, Event("cookies", FALSE, NoResponse))
    /\ fpc' = AfterCookieError
    /\ UNCHANGED <<retries, delay, new_requests, attempt, jar, fret, bhav_vars, split_vars, hist_vars, quote_vars, race_vars>>

\* session.get(url, ...) raises a transport error.
DataGetFail ==
    /\ fpc = "get"
    /\ \E k \in TransportKinds, m \in Msgs :
          /\ exc' = [kind |-> k, msg |-> m]
          /\ errs' = Append(errs, [kind |-> k, msg |-> m])
    /\ io' = Append(io, Event("get", FALSE, NoResponse))
    /\ fpc' = "except"
    /\ UNCHANGED <<retries, delay, new_requests, attempt, jar, fret, bhav_vars, split_vars, hist_vars, quote_vars, race_vars>>

\* session.get(url, ...) answers; raise_for_status(); return response.json().
DataGetAnswer ==
    /\ fpc = "get"
    /\ \E s \in HttpStatuses, b \in Bodies, m \in Msgs :
          LET resp == [status |-> s, body |-> b]
              parsed == ParseJson(b)
              httpErr == [kind |-> "HTTPError", msg |-> m]
              jsonErr == [kind |-> JsonErrorKind, msg |-> m]
          IN /\ io' = Append(io, Event("get", TRUE, resp))
             /\ IF RaisesForStatus(s)
                  THEN /\ exc' = httpErr
                       /\ errs' = Append(errs, httpErr)
                       /\ fpc' = "except"
                       /\ fret' = fret
                  ELSE IF parsed.ok
                  THEN /\ exc' = exc
                       /\ errs' = Append(errs, NoError)
                       /\ fpc' = ReturnJson(parsed.value).pc
                       /\ fret' = ReturnJson(parsed.value).ret
                  ELSE IF IsRequestException(jsonErr)
                  THEN /\ exc' = jsonErr
                       /\ errs' = Append(errs, jsonErr)
                       /\ fpc' = "except"
                       /\ fret' = fret
                  ELSE \* not caught by `except requests.RequestException`
                       /\ exc' = exc
                       /\ errs' = Append(errs, jsonErr)
                       /\ fpc' = "done"
                       /\ fret' = Raised(jsonErr)
    /\ UNCHANGED <<retries, delay, new_requests, attempt, jar, bhav_vars, split_vars, hist_vars, quote_vars, race_vars>>

\* except clause, attempts remain: sleep(delay), then the next iteration.
Sleep ==
    /\ fpc = "except"
    /\ AttemptsRemain
    /\ io' = Append(io, SleepEvent(SleepSecs))
    /\ attempt' = attempt + 1
    /\ fpc' = "loop"
    /\ UNCHANGED <<retries, delay, new_requests, exc, errs, jar, fret, bhav_vars, split_vars, hist_vars, quote_vars, race_vars>>

\* except clause, last attempt: log the error and re-raise it.
Reraise ==
    /\ fpc = "except"
    /\ ~AttemptsRemain
    /\ fret' = Raised(Reraised)
    /\ fpc' = "done"
    /\ UNCHANGED <<retries, delay, new_requests, attempt, exc, errs, io, jar, bhav_vars, split_vars, hist_vars, quote_vars, race_vars>>

FetchNext ==
    \/ LoopHead
    \/ FetchCookiesOk
    \/ FetchCookiesFail
    \/ DataGetFail
    \/ DataGetAnswer
    \/ Sleep
    \/ Reraise

-----------------------------------------------------------------------------
(* get_bhavcopy *)

\* Suffix of the file the response is saved to.
SaveSuffix(t) ==
    IF t \in ZipTypes THEN ".zip" ELSE IF t = "cm_mii" THEN ".gz" ELSE ".csv"

\* file_path after with_suffix
SavePath == FileName(bhavcopy_type, date, SaveSuffix(bhavcopy_type))

\* new_file_path / csv_path
CsvPath == FileName(bhavcopy_type, date, ".csv")

\* The call ends by raising `surfaced`; `e` is the exception first raised.
EndRaise(e, surfaced) ==
    /\ bexc' = e
    /\ bret' = BRaised(surfaced)
    /\ seen' = seen \cup {[exc |-> e.kind, error |-> surfaced]}
    /\ bpc' = "done"

\* An exception raised inside the try block goes through the except clauses.
RaiseInTry(e) == EndRaise(e, Translate(e))

\* An exception raised before the try block propagates as it is.
RaiseBeforeTry(e) == EndRaise(e, e)

EndReturn(p) ==
    /\ bret' = BReturned(p)
    /\ bpc' = "done"
    /\ UNCHANGED <<bexc, seen>>

\* Variant: the file is opened for writing before the request is sent.
FilesAtRequest_OpenedFirst(fs) == WriteFile(fs, SavePath, Blob("partial", <<>>, ""))

\* session.get(...) and raise_for_status() come before open(file_path, "wb"):
\* the request leaves the directory as it is.
FilesAtRequest(fs) == fs

BhavInit ==
    /\ bhavcopy_type \in TypeArgs
    /\ date \in Dates
    /\ dir_exists \in BOOLEAN
    /\ files = EmptyDir
    /\ bpc = "mkdir"
    /\ url = NoUrl
    /\ content = NoContent
    /\ extracted = <<>>
    /\ bnet = <<>>
    /\ bexc = NoError
    /\ bret = BRunning
    /\ ncalls = 1
    /\ seen = {}
    /\ extras = {}
    \* no call of fetch_data_from_nse is in progress
    /\ retries = DefaultRetries
    /\ delay = DefaultDelay
    /\ new_requests = TRUE
    /\ attempt = 0
    /\ fpc = "idle"
    /\ exc = NoError
    /\ errs = <<>>
    /\ io = <<>>
    /\ jar = 0
    /\ fret = Running
    \* no call of _split_date_range is in progress
    /\ from_date = DateMin
    /\ to_date = DateMin
    /\ max_chunk_size = DefaultChunkSize
    /\ current_start = DateMin
    /\ chunks = <<>>
    /\ spc = "idle"
    /\ sret = SRunning
    \* no call of a historical-data function is in progress
    /\ hfn = "equity"
    /\ series = <<"EQ">>
    /\ hpc = "idle"
    /\ chunk_idx = 1
    /\ all_data = <<>>
    /\ all_turnover_data = <<>>
    /\ hnet = <<>>
    /\ hcalls = <<>>
    /\ hret = HRunning
    \* no two callers run concurrently
    /\ cpc = [c \in Callers |-> "idle"]
    /\ cattempt = [c \in Callers |-> 0]
    /\ cboot = [c \in Callers |-> 0]
    /\ clog = <<>>
    \* no call of get_stock_quote or get_option_chain is in progress
    /\ qfn = "get_stock_quote"
    /\ symbol = "INFY"
    /\ qpc = "idle"
    /\ qret = QRunning

\* target_directory.mkdir(parents=True, exist_ok=True): before the try block.
\* It cannot fail on a directory that exists.
BhavMkdir ==
    /\ bpc = "mkdir"
    /\ \/ /\ dir_exists' = TRUE
          /\ bpc' = "url"
          /\ UNCHANGED <<bexc, bret, seen>>
       \/ /\ ~dir_exists
          /\ RaiseBeforeTry(OSError)
          /\ UNCHANGED dir_exists
    /\ UNCHANGED <<bhavcopy_type, date, files, url, content, extracted, bnet, ncalls, extras>>
    /\ UNCHANGED <<fetch_vars, jar, split_vars, hist_vars, quote_vars, race_vars>>

\* The if/elif chain over bhavcopy_type; `else: raise ValueError`, before the try block.
BhavBuildUrl ==
    /\ bpc = "url"
    /\ IF bhavcopy_type \in BhavTypes
         THEN /\ url' = BhavUrl(bhavcopy_type, date)
              /\ bpc' = "cookies"
              /\ UNCHANGED <<bexc, bret, seen>>
         ELSE /\ RaiseBeforeTry([kind |-> "ValueError", msg |-> "Invalid bhavcopy_type"])
              /\ UNCHANGED url
    /\ UNCHANGED <<bhavcopy_type, date, dir_exists, files, content, extracted, bnet, ncalls, extras>>
    /\ UNCHANGED <<fetch_vars, jar, split_vars, hist_vars, quote_vars, race_vars>>

\* `cookies=_fetch_cookies()`: the argument is evaluated, so the bootstrap GET
\* is issued, before session.get(url) is called.
BhavFetchCookies ==
    /\ bpc = "cookies"
    /\ \/ /\ bnet' = Append(bnet, BEvent("cookies", TRUE))
          /\ jar' = jar + 1
          /\ bpc' = "download"
          /\ UNCHANGED <<bexc, bret, seen>>
       \/ /\ bnet' = Append(bnet, BEvent("cookies", FALSE))
          /\ \E k \in TransportKinds, m \in Msgs : RaiseInTry([kind |-> k, msg |-> m])
          /\ UNCHANGED jar
    /\ UNCHANGED <<bhavcopy_type, date, dir_exists, files, url, content, extracted, ncalls, extras>>
    /\ UNCHANGED <<fetch_vars, split_vars, hist_vars, quote_vars, race_vars>>

\* response = session.get(url, ...); response.raise_for_status()
BhavDownload ==
    /\ bpc = "download"
    /\ \/ /\ bnet' = Append(bnet, BEvent("get", FALSE))
          /\ \E k \in TransportKinds, m \in Msgs : RaiseInTry([kind |-> k, msg |-> m])
          /\ UNCHANGED content
       \/ /\ bnet' = Append(bnet, BEvent("get", TRUE))
          /\ \E s \in HttpStatuses :
                IF RaisesForStatus(s)
                  THEN /\ \E m \in Msgs : RaiseInTry([kind |-> "HTTPError", msg |-> m])
                       /\ UNCHANGED content
                  ELSE /\ content' \in Payloads(bhavcopy_type, date)
                       /\ bpc' = "save"
                       /\ UNCHANGED <<bexc, bret, seen>>
    /\ files' = FilesAtRequest(files)
    /\ UNCHANGED <<bhavcopy_type, date, dir_exists, url, extracted, ncalls, extras>>
    /\ UNCHANGED <<fetch_vars, jar, split_vars, hist_vars, quote_vars, race_vars>>

\* with open(file_path, "wb") as file: file.write(response.content)
\* For the uncompressed types this is the last step: return file_path.
BhavSave ==
    /\ bpc = "save"
    /\ \/ /\ files' = WriteFile(files, SavePath, content)
          /\ IF bhavcopy_type \in ZipTypes
               THEN bpc' = "extract" /\ UNCHANGED <<bexc, bret, seen>>
             ELSE IF bhavcopy_type = "cm_mii"
               THEN bpc' = "gunzip" /\ UNCHANGED <<bexc, bret, seen>>
             ELSE EndReturn(SavePath)
       \/ \* open() fails: nothing is written
          /\ UNCHANGED files
          /\ RaiseInTry(OSError)
       \/ \* write() fails: the file is left truncated
          /\ files' = WriteFile(files, SavePath, Blob("partial", <<>>, ""))
          /\ RaiseInTry(OSError)
    /\ UNCHANGED <<bhavcopy_type, date, dir_exists, url, content, extracted, bnet, ncalls, extras>>
    /\ UNCHANGED <<fetch_vars, jar, split_vars, hist_vars, quote_vars, race_vars>>

\* with zipfile.ZipFile(file_path) as zip_ref: extractall; namelist()[0]
BhavExtract ==
    /\ bpc = "extract"
    /\ IF content.fmt # "zip"
         THEN /\ RaiseInTry([kind |-> "BadZipFile", msg |-> "File is not a zip file"])
              /\ UNCHANGED <<files, extracted, extras>>
         ELSE \/ /\ files' = ExtractMembers(files, content.members, Len(content.members))
                 /\ extras' = extras \cup ExtraNames(content.members, Len(content.members))
                 /\ IF Len(content.members) = 0
                      THEN /\ RaiseInTry([kind |-> "IndexError", msg |-> "list index out of range"])
                           /\ UNCHANGED extracted
                      ELSE /\ extracted' = content.members[1].name
                           /\ bpc' = "rename"
                           /\ UNCHANGED <<bexc, bret, seen>>
              \/ \* extractall fails after writing the first k members
                 /\ \E k \in 0..(Len(content.members) - 1) :
                       /\ files' = ExtractMembers(files, content.members, k)
                       /\ extras' = extras \cup ExtraNames(content.members, k)
                 /\ RaiseInTry(OSError)
                 /\ UNCHANGED extracted
    /\ UNCHANGED <<bhavcopy_type, date, dir_exists, url, content, bnet, ncalls>>
    /\ UNCHANGED <<fetch_vars, jar, split_vars, hist_vars, quote_vars, race_vars>>

\* if extracted_file_path != new_file_path: os.rename(extracted_file_path, new_file_path)
BhavRename ==
    /\ bpc = "rename"
    /\ IF extracted # CsvPath
         THEN \/ /\ files' = RenameFile(files, extracted, CsvPath)
                 /\ bpc' = "remove"
                 /\ UNCHANGED <<bexc, bret, seen>>
              \/ /\ UNCHANGED files
                 /\ RaiseInTry(OSError)
         ELSE /\ bpc' = "remove"
              /\ UNCHANGED <<files, bexc, bret, seen>>
    /\ UNCHANGED <<bhavcopy_type, date, dir_exists, url, content, extracted, bnet, ncalls, extras>>
    /\ UNCHANGED <<fetch_vars, jar, split_vars, hist_vars, quote_vars, race_vars>>

\* cm_mii: with gzip.open(file_path, "rb") as gz_file:
\*             with open(csv_path, "wb") as csv_file: shutil.copyfileobj(gz_file, csv_file)
\* open(csv_path, "wb") creates or truncates the CSV before the first read.
BhavGunzip ==
    /\ bpc = "gunzip"
    /\ \/ \* open(csv_path, "wb") fails
          /\ UNCHANGED files
          /\ RaiseInTry(OSError)
       \/ /\ content.fmt = "gz"
          /\ \/ /\ files' = WriteFile(files, CsvPath, RawBytes(content.data))
                /\ bpc' = "remove"
                /\ UNCHANGED <<bexc, bret, seen>>
             \/ /\ files' = WriteFile(files, CsvPath, Blob("partial", <<>>, ""))
                /\ RaiseInTry(OSError)
       \/ /\ content.fmt = "gz_truncated"
          /\ files' = WriteFile(files, CsvPath, Blob("partial", <<>>, ""))
          /\ RaiseInTry([kind |-> "EOFError", msg |-> "Compressed file ended"])
       \/ /\ content.fmt \notin {"gz", "gz_truncated"}
          /\ files' = WriteFile(files, CsvPath, RawBytes(""))
          /\ RaiseInTry([kind |-> "BadGzipFile", msg |-> "Not a gzipped file"])
    /\ UNCHANGED <<bhavcopy_type, date, dir_exists, url, content, extracted, bnet, ncalls, extras>>
    /\ UNCHANGED <<fetch_vars, jar, split_vars, hist_vars, quote_vars, race_vars>>

\* os.remove(file_path); return new_file_path / csv_path
BhavRemove ==
    /\ bpc = "remove"
    /\ \/ /\ files' = RemoveFile(files, SavePath)
          /\ EndReturn(CsvPath)
       \/ /\ UNCHANGED files
          /\ RaiseInTry(OSError)
    /\ UNCHANGED <<bhavcopy_type, date, dir_exists, url, content, extracted, bnet, ncalls, extras>>
    /\ UNCHANGED <<fetch_vars, jar, split_vars, hist_vars, quote_vars, race_vars>>

\* The caller invokes get_bhavcopy again with the same arguments.
BhavReinvoke ==
    /\ bpc = "done"
    /\ ncalls < MaxCalls
    /\ ncalls' = ncalls + 1
    /\ bpc' = "mkdir"
    /\ url' = NoUrl
    /\ content' = NoContent
    /\ extracted' = <<>>
    /\ bnet' = <<>>
    /\ bexc' = NoError
    /\ bret' = BRunning
    /\ UNCHANGED <<bhavcopy_type, date, dir_exists, files, seen, extras>>
    /\ UNCHANGED <<fetch_vars, jar, split_vars, hist_vars, quote_vars, race_vars>>

BhavNext ==
    \/ BhavMkdir
    \/ BhavBuildUrl
    \/ BhavFetchCookies
    \/ BhavDownload
    \/ BhavSave
    \/ BhavExtract
    \/ BhavRename
    \/ BhavGunzip
    \/ BhavRemove
    \/ BhavReinvoke

-----------------------------------------------------------------------------
(* _split_date_range *)

\* Iterations of the while loop the model follows; a call with
\* max_chunk_size >= 1 on the dates above needs at most MaxSpan + 1.
MaxIter == MaxSpan + 2

\* Variant: the range is validated for a positive chunk size only.
InvalidRange_PositiveSizeOnly == from_date > to_date /\ max_chunk_size >= 1

\* `if from_date > to_date: raise ValueError(...)`
InvalidRange == from_date > to_date

\* Variant: the chunk ends max_chunk_size days after its start.
ChunkEnd_OneDayLonger(start) == start + max_chunk_size

\* current_end = current_start + timedelta(days=max_chunk_size - 1)
ChunkEnd(start) == start + (max_chunk_size - 1)

\* `if current_end > to_date: current_end = to_date`
Clip(end) == IF end > to_date THEN to_date ELSE end

\* Variant: the next chunk starts two days after the current one ends.
NextStart_SkipsADay(end) == end + 2

\* current_start = current_end + timedelta(days=1)
NextStart(end) == end + 1

SplitInit ==
    /\ \E w \in DateWindows : from_date \in w /\ to_date \in w
    /\ max_chunk_size \in ChunkSizeArgs
    /\ current_start = DateMin
    /\ chunks = <<>>
    /\ spc = "check"
    /\ sret = SRunning
    \* no call of fetch_data_from_nse is in progress
    /\ retries = DefaultRetries
    /\ delay = DefaultDelay
    /\ new_requests = TRUE
    /\ attempt = 0
    /\ fpc = "idle"
    /\ exc = NoError
    /\ errs = <<>>
    /\ io = <<>>
    /\ jar = 0
    /\ fret = Running
    \* no call of get_bhavcopy is in progress
    /\ bhavcopy_type = "equity"
    /\ date = [year |-> CutoffYear, month |-> 1, day |-> 1]
    /\ dir_exists = TRUE
    /\ files = EmptyDir
    /\ bpc = "idle"
    /\ url = NoUrl
    /\ content = NoContent
    /\ extracted = <<>>
    /\ bnet = <<>>
    /\ bexc = NoError
    /\ bret = BRunning
    /\ ncalls = 0
    /\ seen = {}
    /\ extras = {}
    \* no call of a historical-data function is in progress
    /\ hfn = "equity"
    /\ series = <<"EQ">>
    /\ hpc = "idle"
    /\ chunk_idx = 1
    /\ all_data = <<>>
    /\ all_turnover_data = <<>>
    /\ hnet = <<>>
    /\ hcalls = <<>>
    /\ hret = HRunning
    \* no two callers run concurrently
    /\ cpc = [c \in Callers |-> "idle"]
    /\ cattempt = [c \in Callers |-> 0]
    /\ cboot = [c \in Callers |-> 0]
    /\ clog = <<>>
    \* no call of get_stock_quote or get_option_chain is in progress
    /\ qfn = "get_stock_quote"
    /\ symbol = "INFY"
    /\ qpc = "idle"
    /\ qret = QRunning

\* The validation, then chunks = [] and current_start = from_date.
SplitCheck ==
    /\ spc = "check"
    /\ IF InvalidRange
         THEN /\ sret' = SRaised([kind |-> "ValueError",
                                  msg |-> "from_date cannot be greater than to_date"])
              /\ spc' = "done"
              /\ UNCHANGED <<chunks, current_start>>
         ELSE /\ chunks' = <<>>
              /\ current_start' = from_date
              /\ spc' = "loop"
              /\ UNCHANGED sret
    /\ UNCHANGED <<from_date, to_date, max_chunk_size>>
    /\ UNCHANGED <<fetch_vars, jar, bhav_vars, hist_vars, quote_vars, race_vars>>

\* One iteration of `while current_start <= to_date`. Either date addition
\* raises OverflowError when its result is outside date.min..date.max.
SplitStep ==
    /\ spc = "loop"
    /\ current_start <= to_date
    /\ Len(chunks) < MaxIter
    /\ IF ~InDateRange(ChunkEnd(current_start))
         THEN /\ sret' = SRaised([kind |-> "OverflowError", msg |-> "date value out of range"])
              /\ spc' = "done"
              /\ UNCHANGED <<chunks, current_start>>
         ELSE LET current_end == Clip(ChunkEnd(current_start))
              IN /\ chunks' = Append(chunks, <<current_start, current_end>>)
                 /\ IF ~InDateRange(NextStart(current_end))
                      THEN /\ sret' = SRaised([kind |-> "OverflowError",
                                               msg |-> "date value out of range"])
                           /\ spc' = "done"
                           /\ UNCHANGED current_start
                      ELSE /\ current_start' = NextStart(current_end)
                           /\ UNCHANGED <<spc, sret>>
    /\ UNCHANGED <<from_date, to_date, max_chunk_size>>
    /\ UNCHANGED <<fetch_vars, jar, bhav_vars, hist_vars, quote_vars, race_vars>>

\* The loop condition is false: return chunks.
SplitReturn ==
    /\ spc = "loop"
    /\ ~(current_start <= to_date)
    /\ sret' = SReturned(chunks)
    /\ spc' = "done"
    /\ UNCHANGED <<from_date, to_date, max_chunk_size, current_start, chunks>>
    /\ UNCHANGED <<fetch_vars, jar, bhav_vars, hist_vars, quote_vars, race_vars>>

SplitNext ==
    \/ SplitCheck
    \/ SplitStep
    \/ SplitReturn

-----------------------------------------------------------------------------
(* get_historical_equity_data, get_historical_index_data *)

\* `(to_date - from_date).days <= 30`
ShortRangeDays == 30

\* The ranges a caller asks for, by to_date - from_date: a reversed range, one
\* day, up to one chunk, two chunks, three chunks.
HistSpans(fn) ==
    IF fn = "equity"
      THEN {0 - 1, 0, ShortRangeDays, ShortRangeDays + 1, DefaultChunkSize,
            2 * DefaultChunkSize + ShortRangeDays}
      ELSE {0 - 1, 0, IndexChunkSize, 2 * IndexChunkSize + ShortRangeDays}

SeriesArgs == {<<"EQ">>, <<"EQ", "BE">>}

\* Variant: a page is appended as it came.
Reversed_AsItCame(page) == page

\* list(reversed(page)), page[::-1]
Reversed(page) == [i \in 1..Len(page) |-> page[Len(page) + 1 - i]]

\* `if from_date <= record_date <= to_date: filtered_records.append(record)`
Filtered(page) == SelectSeq(page, LAMBDA r : from_date <= r /\ r <= to_date)

\* Variant: the list is replaced by the records of the chunk.
Extended_Replaced(acc, records) == records

\* all_data.extend(records)
Extended(acc, records) == acc \o records

\* `series == ["EQ"] and (to_date - from_date).days <= 30`
SimpleCase == series = <<"EQ">> /\ to_date - from_date <= ShortRangeDays

\* max_chunk_size of the call of _split_date_range
HistChunkSize == IF hfn = "equity" THEN DefaultChunkSize ELSE IndexChunkSize

\* date_chunks
date_chunks == sret.chunks

\* get_historical_equity_data, get_historical_index_data
HistFns == {"equity", "index"}

\* get_corporate_actions, get_announcements, bulk_deals: one fetch for the
\* whole range.
RangeFns == {"corporate_actions", "announcements", "bulk_deals"}

\* bulk_deals: `if (to_date - from_date).days > 365`
OneYearDays == 365

\* The ranges a caller of these asks for, by to_date - from_date: a reversed
\* range, one day, a year, more than a year.
RangeSpans == {0 - 1, 0, OneYearDays, OneYearDays + 1}

\* What the fetch of these gives back: it raises, or returns None, an object
\* without "data", or the records (under "data" for bulk_deals).
RangeResults ==
    {FetchRaised, FetchedNone, FetchedNoData}
      \cup {FetchedPage({}, pg, <<>>) : pg \in {<<>>, <<from_date>>, <<to_date, from_date>>}}

\* The start and the end of a call of fetch_data_from_nse for chunk c; the
\* end carries how the call ended and the number of HTTP attempts it made.
CallEvent(c) == [op |-> "call", chunk |-> c, outcome |-> "none", attempts |-> 0]
EndEvent(c, r, k) == [op |-> "end", chunk |-> c, outcome |-> r.kind, attempts |-> k]

\* Variant: a chunk whose fetch raised is fetched again.
NextChunk_RetryFailed(idx, r) == IF r.kind = "raise" THEN idx ELSE idx + 1

\* The for loop moves to the next chunk, whatever the iteration did
\* (`continue` in the except clause included).
NextChunk(idx, r) == idx + 1

HistInit ==
    /\ hfn \in HistFns \cup RangeFns
    /\ series \in (IF hfn = "equity" THEN SeriesArgs ELSE {<<"EQ">>})
    /\ from_date = MidDay
    /\ to_date \in {MidDay + k : k \in (IF hfn \in HistFns THEN HistSpans(hfn) ELSE RangeSpans)}
    /\ hpc = "validate"
    /\ chunk_idx = 1
    /\ all_data = <<>>
    /\ all_turnover_data = <<>>
    /\ hnet = <<>>
    /\ hcalls = <<>>
    /\ hret = HRunning
    \* no two callers run concurrently
    /\ cpc = [c \in Callers |-> "idle"]
    /\ cattempt = [c \in Callers |-> 0]
    /\ cboot = [c \in Callers |-> 0]
    /\ clog = <<>>
    \* no call of _split_date_range is in progress
    /\ max_chunk_size = DefaultChunkSize
    /\ current_start = DateMin
    /\ chunks = <<>>
    /\ spc = "idle"
    /\ sret = SRunning
    \* no call of fetch_data_from_nse is followed step by step
    /\ retries = DefaultRetries
    /\ delay = DefaultDelay
    /\ new_requests = TRUE
    /\ attempt = 0
    /\ fpc = "idle"
    /\ exc = NoError
    /\ errs = <<>>
    /\ io = <<>>
    /\ jar = 0
    /\ fret = Running
    \* no call of get_bhavcopy is in progress
    /\ bhavcopy_type = "equity"
    /\ date = [year |-> CutoffYear, month |-> 1, day |-> 1]
    /\ dir_exists = TRUE
    /\ files = EmptyDir
    /\ bpc = "idle"
    /\ url = NoUrl
    /\ content = NoContent
    /\ extracted = <<>>
    /\ bnet = <<>>
    /\ bexc = NoError
    /\ bret = BRunning
    /\ ncalls = 0
    /\ seen = {}
    /\ extras = {}
    \* no call of get_stock_quote or get_option_chain is in progress
    /\ qfn = "get_stock_quote"
    /\ symbol = "INFY"
    /\ qpc = "idle"
    /\ qret = QRunning

\* _split_date_range(from_date, to_date, max_chunk_size=...) is called.
CallSplit ==
    /\ max_chunk_size' = HistChunkSize
    /\ spc' = "check"
    /\ UNCHANGED <<from_date, to_date, current_start, chunks, sret>>

\* The checks of the arguments (both dates given, as date objects), then the
\* choice between the simple endpoint and the chunked path.
HistValidate ==
    /\ hfn \in HistFns
    /\ hpc = "validate"
    /\ IF from_date > to_date
         THEN /\ hret' = HRaised([kind |-> "ValueError",
                                  msg |-> "from_date cannot be greater than to_date"])
              /\ hpc' = "done"
              /\ UNCHANGED split_vars
         ELSE IF hfn = "equity" /\ SimpleCase
         THEN /\ hpc' = "short"
              /\ UNCHANGED <<hret, split_vars>>
         ELSE /\ hpc' = "split"
              /\ CallSplit
              /\ UNCHANGED hret
    /\ UNCHANGED <<hfn, series, chunk_idx, all_data, all_turnover_data, hnet, hcalls>>
    /\ UNCHANGED <<fetch_vars, jar, bhav_vars, quote_vars, race_vars>>

\* The simple case of get_historical_equity_data: one fetch without dates;
\* with data, the records inside the range are returned, reversed. Without
\* data, or when the fetch raises, the chunked path follows.
HistShortFetch ==
    /\ hpc = "short"
    /\ \E r \in ShortResults(from_date, to_date) :
          /\ hnet' = Append(hnet, HEvent("short", NoChunk, r))
          /\ IF r.kind = "page"
               THEN /\ hret' = HReturned(Reversed(Filtered(r.data)), <<>>)
                    /\ hpc' = "done"
                    /\ UNCHANGED split_vars
               ELSE /\ hpc' = "split"
                    /\ CallSplit
                    /\ UNCHANGED hret
    /\ UNCHANGED <<hfn, series, chunk_idx, all_data, all_turnover_data, hcalls>>
    /\ UNCHANGED <<fetch_vars, jar, bhav_vars, quote_vars, race_vars>>

\* _split_date_range has ended: its exception propagates, or the loop over
\* date_chunks starts with empty lists.
HistSplitDone ==
    /\ hpc = "split"
    /\ spc = "done"
    /\ IF sret.status = "raised"
         THEN /\ hret' = HRaised(sret.error)
              /\ hpc' = "done"
         ELSE /\ hpc' = "loop"
              /\ UNCHANGED hret
    /\ chunk_idx' = 1
    /\ all_data' = <<>>
    /\ all_turnover_data' = <<>>
    /\ UNCHANGED <<hfn, series, hnet, hcalls>>
    /\ UNCHANGED <<fetch_vars, jar, bhav_vars, split_vars, quote_vars, race_vars>>

\* `for chunk_start, chunk_end in date_chunks`: the next chunk is taken and
\* fetch_data_from_nse(endpoint, params=params) is called for it.
HistChunkCall ==
    /\ hpc = "loop"
    /\ chunk_idx <= Len(date_chunks)
    /\ hcalls' = Append(hcalls, CallEvent(date_chunks[chunk_idx]))
    /\ hpc' = "fetch"
    /\ UNCHANGED <<hfn, series, chunk_idx, all_data, all_turnover_data, hnet, hret>>
    /\ UNCHANGED <<fetch_vars, jar, bhav_vars, split_vars, quote_vars, race_vars>>

\* The call of fetch_data_from_nse ends, after 1..retries HTTP attempts
\* (retries is left at its default): its records are appended;
\* `except Exception: continue`. Then the next iteration.
HistChunkFetch ==
    /\ hpc = "fetch"
    /\ LET c == date_chunks[chunk_idx]
       IN \E r \in (IF hfn = "equity" THEN EquityResults(c) ELSE IndexResults(c)) :
             /\ hnet' = Append(hnet, HEvent("chunk", c, r))
             /\ \E k \in 1..DefaultRetries : hcalls' = Append(hcalls, EndEvent(c, r, k))
             /\ chunk_idx' = NextChunk(chunk_idx, r)
             /\ IF r.kind # "page"
                  THEN UNCHANGED <<all_data, all_turnover_data>>
                ELSE IF hfn = "equity"
                  THEN /\ all_data' = Extended(all_data, Reversed(r.data))
                       /\ UNCHANGED all_turnover_data
                  ELSE /\ all_data' =
                            IF "indexCloseOnlineRecords" \in r.keys
                              THEN Extended(all_data, r.data) ELSE all_data
                       /\ all_turnover_data' =
                            IF "indexTurnoverRecords" \in r.keys
                              THEN Extended(all_turnover_data, r.turnover)
                              ELSE all_turnover_data
    /\ hpc' = "loop"
    /\ UNCHANGED <<hfn, series, hret>>
    /\ UNCHANGED <<fetch_vars, jar, bhav_vars, split_vars, quote_vars, race_vars>>

\* After the loop: `if not all_data: raise Exception("No historical data
\* found ...")`, else the lists are returned.
HistEnd ==
    /\ hpc = "loop"
    /\ chunk_idx > Len(date_chunks)
    /\ IF all_data = <<>> /\ all_turnover_data = <<>>
         THEN hret' = HRaised([kind |-> "Exception", msg |-> "No historical data found"])
         ELSE hret' = HReturned(all_data, all_turnover_data)
    /\ hpc' = "done"
    /\ UNCHANGED <<hfn, series, chunk_idx, all_data, all_turnover_data, hnet, hcalls>>
    /\ UNCHANGED <<fetch_vars, jar, bhav_vars, split_vars, quote_vars, race_vars>>

\* get_corporate_actions, get_announcements (both dates given):
\*   `if from_date > to_date: raise ValueError(...)`
\* bulk_deals:
\*   `if (to_date - from_date).days > 365: raise ValueError(...)`
\* then the request parameters are built.
RangeValidate ==
    /\ hfn \in RangeFns
    /\ hpc = "validate"
    /\ IF hfn = "bulk_deals"
         THEN IF to_date - from_date > OneYearDays
                THEN /\ hret' = HRaised([kind |-> "ValueError",
                                         msg |-> "The date range cannot exceed one year."])
                     /\ hpc' = "done"
                ELSE /\ hpc' = "fetch_range"
                     /\ UNCHANGED hret
         ELSE IF from_date > to_date
                THEN /\ hret' = HRaised([kind |-> "ValueError",
                                         msg |-> "'from_date' cannot be greater than 'to_date'"])
                     /\ hpc' = "done"
                ELSE /\ hpc' = "fetch_range"
                     /\ UNCHANGED hret
    /\ UNCHANGED <<hfn, series, chunk_idx, all_data, all_turnover_data, hnet, hcalls>>
    /\ UNCHANGED <<fetch_vars, jar, bhav_vars, split_vars, quote_vars, race_vars>>

\* fetch_data_from_nse(endpoint, params=params) inside
\* `try: ... except requests.exceptions.RequestException`: a RequestException
\* is wrapped in Exception, any other exception propagates.
\* get_corporate_actions, get_announcements return what the fetch returned
\* (None is shown as no records); bulk_deals returns data["data"], raises
\* RuntimeError when it is missing or empty, and on None fails with
\* AttributeError (None has no .get).
RangeFetch ==
    /\ hfn \in RangeFns
    /\ hpc = "fetch_range"
    /\ \E r \in RangeResults :
          /\ hnet' = Append(hnet, HEvent("range", NoChunk, r))
          /\ IF r.kind = "raise"
               THEN \/ hret' = HRaised([kind |-> "Exception", msg |-> "Failed to fetch"])
                    \/ hret' = HRaised([kind |-> "ValueError", msg |-> "Expecting value"])
             ELSE IF hfn # "bulk_deals"
               THEN hret' = HReturned(r.data, <<>>)
             ELSE IF r.kind = "none"
               THEN hret' = HRaised([kind |-> "AttributeError",
                                     msg |-> "'NoneType' object has no attribute 'get'"])
             ELSE IF r.kind = "nodata" \/ r.data = <<>>
               THEN hret' = HRaised([kind |-> "RuntimeError",
                                     msg |-> "No bulk deals data available"])
             ELSE hret' = HReturned(r.data, <<>>)
    /\ hpc' = "done"
    /\ UNCHANGED <<hfn, series, chunk_idx, all_data, all_turnover_data, hcalls>>
    /\ UNCHANGED <<fetch_vars, jar, bhav_vars, split_vars, quote_vars, race_vars>>

HistNext ==
    \/ HistValidate
    \/ HistShortFetch
    \/ SplitCheck
    \/ SplitStep
    \/ SplitReturn
    \/ HistSplitDone
    \/ HistChunkCall
    \/ HistChunkFetch
    \/ HistEnd
    \/ RangeValidate
    \/ RangeFetch

-----------------------------------------------------------------------------
(* get_stock_quote, get_option_chain *)

SymbolArgs == {"INFY", "INVALID_SYMBOL"}

\* data.get("info", {}).get("symbol")
InfoSymbol(value) ==
    value \in {"{'info': {'symbol': 'INFY'}, 'priceInfo': {'lastPrice': 1}}",
               "{'info': {'symbol': 'INFY'}}"}

\* data["priceInfo"]["lastPrice"] does not raise KeyError
HasLastPrice(value) == value = "{'info': {'symbol': 'INFY'}, 'priceInfo': {'lastPrice': 1}}"

\* data.get("records")
HasRecords(value) == value = "{'records': {'data': []}}"

\* e.response of the HTTPError raise_for_status() raised: the response of the
\* last GET of the fetch.
ErrorResponse == io[Len(io)].resp

\* `if e.response and e.response.status_code == 404:`
IsNotFound(resp) == ResponseIsTrue(resp) /\ resp.status = 404

InvalidSymbol == QError("ValueError", "Invalid symbol: ", symbol)

QuoteInit ==
    /\ qfn \in {"get_stock_quote", "get_option_chain"}
    /\ symbol \in SymbolArgs
    /\ qpc = "fetch"
    /\ qret = QRunning
    \* fetch_data_from_nse(endpoint, params=params) is called
    /\ retries = DefaultRetries
    /\ delay = DefaultDelay
    /\ new_requests \in BOOLEAN
    /\ attempt = 0
    /\ fpc = "loop"
    /\ exc = NoError
    /\ errs = <<>>
    /\ io = <<>>
    /\ jar = 0
    /\ fret = Running
    \* no call of get_bhavcopy is in progress
    /\ bhavcopy_type = "equity"
    /\ date = [year |-> CutoffYear, month |-> 1, day |-> 1]
    /\ dir_exists = TRUE
    /\ files = EmptyDir
    /\ bpc = "idle"
    /\ url = NoUrl
    /\ content = NoContent
    /\ extracted = <<>>
    /\ bnet = <<>>
    /\ bexc = NoError
    /\ bret = BRunning
    /\ ncalls = 0
    /\ seen = {}
    /\ extras = {}
    \* no call of _split_date_range is in progress
    /\ from_date = DateMin
    /\ to_date = DateMin
    /\ max_chunk_size = DefaultChunkSize
    /\ current_start = DateMin
    /\ chunks = <<>>
    /\ spc = "idle"
    /\ sret = SRunning
    \* no call of a historical-data function is in progress
    /\ hfn = "equity"
    /\ series = <<"EQ">>
    /\ hpc = "idle"
    /\ chunk_idx = 1
    /\ all_data = <<>>
    /\ all_turnover_data = <<>>
    /\ hnet = <<>>
    /\ hcalls = <<>>
    /\ hret = HRunning
    \* no two callers run concurrently
    /\ cpc = [c \in Callers |-> "idle"]
    /\ cattempt = [c \in Callers |-> 0]
    /\ cboot = [c \in Callers |-> 0]
    /\ clog = <<>>

\* fetch_data_from_nse returned `data`: the checks of the try block, then the
\* return. ValueError and KeyError pass the except clauses unchanged.
QuoteData ==
    /\ qpc = "fetch"
    /\ fpc = "done"
    /\ fret.status = "returned"
    /\ LET data == fret.value
       IN IF data = "None"
            THEN qret' = QRaised(InvalidSymbol)
          ELSE IF qfn = "get_stock_quote"
            THEN IF ~InfoSymbol(data)
                   THEN qret' = QRaised(InvalidSymbol)
                 ELSE IF ~HasLastPrice(data)
                   THEN qret' = QRaised(QError("KeyError", "priceInfo", "none"))
                 ELSE qret' = QReturned("{'symbol': 'INFY', 'current_price': 1}")
          ELSE IF ~HasRecords(data)
            THEN qret' = QRaised(InvalidSymbol)
          ELSE qret' = QReturned(data)
    /\ qpc' = "done"
    /\ UNCHANGED <<qfn, symbol>>
    /\ UNCHANGED <<fetch_vars, jar, bhav_vars, split_vars, hist_vars, race_vars>>

\* fetch_data_from_nse raised e:
\*   except HTTPError: ValueError for a 404, else Exception("Failed to fetch ...")
\*   except RequestException: Exception("API request failed: ...")
\* any other exception passes unchanged.
QuoteError ==
    /\ qpc = "fetch"
    /\ fpc = "done"
    /\ fret.status = "raised"
    /\ LET e == fret.error
       IN IF e.kind = "HTTPError"
            THEN IF IsNotFound(ErrorResponse)
                   THEN qret' = QRaised(InvalidSymbol)
                   ELSE qret' = QRaised(QError("Exception", "Failed to fetch: ", e.kind))
          ELSE IF IsRequestException(e)
            THEN qret' = QRaised(QError("Exception", "API request failed: ", e.kind))
          ELSE qret' = QRaised(QError(e.kind, e.msg, "none"))
    /\ qpc' = "done"
    /\ UNCHANGED <<qfn, symbol>>
    /\ UNCHANGED <<fetch_vars, jar, bhav_vars, split_vars, hist_vars, race_vars>>

QuoteNext ==
    \/ LoopHead
    \/ FetchCookiesOk
    \/ FetchCookiesFail
    \/ DataGetFail
    \/ DataGetAnswer
    \/ Sleep
    \/ Reraise
    \/ QuoteData
    \/ QuoteError

-----------------------------------------------------------------------------
(* get_equity_metadata *)

\* Symbols a caller passes: lower case, with the characters "404" in it,
\* blank.
MetaSymbolArgs == {"tcs", "ABC404", " "}

\* symbol.strip()
Strip(sym) == IF sym = " " THEN "" ELSE sym

\* symbol.upper()
Upper(sym) == IF sym = "tcs" THEN "TCS" ELSE sym

\* A text is a sequence of pieces; a symbol is the pieces it is made of.
SymbolText(sym) == IF sym = "ABC404" THEN <<"ABC", "404">> ELSE <<sym>>

\* str.lower() of a piece of text
Lower(piece) ==
    CASE piece = "Not Found" -> "not found"
      [] piece = "ABC" -> "abc"
      [] piece = "TCS" -> "tcs"
      [] OTHER -> piece

\* `"404" in str(e) or "not found" in str(e).lower()`
MentionsNotFound(text) ==
    \/ \E i \in 1..Len(text) : text[i] = "404"
    \/ \E i \in 1..Len(text) : Lower(text[i]) = "not found"

\* The reason phrase of a status line.
Reason(status) ==
    CASE status = 404 -> <<"404", " Client Error: ", "Not Found">>
      [] status = 503 -> <<"503", " Server Error: ", "Service Unavailable">>
      [] OTHER -> <<"200", " ", "OK">>

\* The URL of the data GET: the endpoint and params = {"symbol": symbol.strip().upper()}
MetaUrl == <<"https://www.nseindia.com/api/equity-meta-info?symbol=">>
              \o SymbolText(Upper(Strip(symbol)))

\* str(e) of the exception fetch_data_from_nse raised. raise_for_status()
\* formats "<status> <Client|Server> Error: <reason> for url: <url>"; the
\* text of the other errors is the environment's.
StrOfFetchError(e) ==
    IF e.kind = "HTTPError"
      THEN Reason(ErrorResponse.status) \o <<" for url: ">> \o MetaUrl
      ELSE <<e.msg>>

\* `not data`: None or an empty object
IsEmptyData(value) == value \in {"None", "{}"}

\* data.get("symbol")
MetaHasSymbol(value) ==
    value \in {"{'symbol': 'TCS', 'companyName': 'Tata Consultancy Services'}",
               "{'symbol': 'TCS'}"}

\* data.get("companyName")
MetaHasCompanyName(value) ==
    value = "{'symbol': 'TCS', 'companyName': 'Tata Consultancy Services'}"

\* `except Exception as e:` an exception whose text mentions 404 or "not
\* found" becomes ValueError, any other one a plain Exception.
Surfaced(text) ==
    IF MentionsNotFound(text)
      THEN QError("ValueError", "Symbol not found: ", symbol)
      ELSE QError("Exception", "Failed to fetch metadata for ", symbol)

MetaInit ==
    /\ qfn = "get_equity_metadata"
    /\ symbol \in MetaSymbolArgs
    /\ qpc = "validate"
    /\ qret = QRunning
    \* fetch_data_from_nse is not called yet
    /\ retries = DefaultRetries
    /\ delay = DefaultDelay
    /\ new_requests \in BOOLEAN
    /\ attempt = 0
    /\ fpc = "idle"
    /\ exc = NoError
    /\ errs = <<>>
    /\ io = <<>>
    /\ jar = 0
    /\ fret = Running
    \* no call of get_bhavcopy is in progress
    /\ bhavcopy_type = "equity"
    /\ date = [year |-> CutoffYear, month |-> 1, day |-> 1]
    /\ dir_exists = TRUE
    /\ files = EmptyDir
    /\ bpc = "idle"
    /\ url = NoUrl
    /\ content = NoContent
    /\ extracted = <<>>
    /\ bnet = <<>>
    /\ bexc = NoError
    /\ bret = BRunning
    /\ ncalls = 0
    /\ seen = {}
    /\ extras = {}
    \* no call of _split_date_range is in progress
    /\ from_date = DateMin
    /\ to_date = DateMin
    /\ max_chunk_size = DefaultChunkSize
    /\ current_start = DateMin
    /\ chunks = <<>>
    /\ spc = "idle"
    /\ sret = SRunning
    \* no call of a historical-data function is in progress
    /\ hfn = "equity"
    /\ series = <<"EQ">>
    /\ hpc = "idle"
    /\ chunk_idx = 1
    /\ all_data = <<>>
    /\ all_turnover_data = <<>>
    /\ hnet = <<>>
    /\ hcalls = <<>>
    /\ hret = HRunning
    \* no two callers run concurrently
    /\ cpc = [c \in Callers |-> "idle"]
    /\ cattempt = [c \in Callers |-> 0]
    /\ cboot = [c \in Callers |-> 0]
    /\ clog = <<>>

\* `if not symbol or not symbol.strip(): raise ValueError(...)`, before the
\* try block; then fetch_data_from_nse(endpoint, params=params) is called.
MetaValidate ==
    /\ qpc = "validate"
    /\ IF symbol = "" \/ Strip(symbol) = ""
         THEN /\ qret' = QRaised(QError("ValueError", "Symbol cannot be empty", "none"))
              /\ qpc' = "done"
              /\ UNCHANGED fpc
         ELSE /\ fpc' = "loop"
              /\ qpc' = "fetch"
              /\ UNCHANGED qret
    /\ UNCHANGED <<qfn, symbol>>
    /\ UNCHANGED <<retries, delay, new_requests, attempt, exc, errs, io, fret>>
    /\ UNCHANGED <<jar, bhav_vars, split_vars, hist_vars, race_vars>>

\* fetch_data_from_nse returned `data`: the two checks raise ValueError inside
\* the try block, so the except clause below them handles it.
MetaData ==
    /\ qpc = "fetch"
    /\ fpc = "done"
    /\ fret.status = "returned"
    /\ LET data == fret.value
       IN IF IsEmptyData(data)
            THEN qret' = QRaised(Surfaced(<<"No metadata found for symbol: ">>
                                            \o SymbolText(symbol)))
          ELSE IF ~MetaHasSymbol(data) \/ ~MetaHasCompanyName(data)
            THEN qret' = QRaised(Surfaced(<<"Invalid or delisted symbol: ">>
                                            \o SymbolText(symbol)))
          ELSE qret' = QReturned(data)
    /\ qpc' = "done"
    /\ UNCHANGED <<qfn, symbol>>
    /\ UNCHANGED <<fetch_vars, jar, bhav_vars, split_vars, hist_vars, race_vars>>

\* fetch_data_from_nse raised e: the except clause.
MetaError ==
    /\ qpc = "fetch"
    /\ fpc = "done"
    /\ fret.status = "raised"
    /\ qret' = QRaised(Surfaced(StrOfFetchError(fret.error)))
    /\ qpc' = "done"
    /\ UNCHANGED <<qfn, symbol>>
    /\ UNCHANGED <<fetch_vars, jar, bhav_vars, split_vars, hist_vars, race_vars>>

MetaNext ==
    \/ MetaValidate
    \/ LoopHead
    \/ FetchCookiesOk
    \/ FetchCookiesFail
    \/ DataGetFail
    \/ DataGetAnswer
    \/ Sleep
    \/ Reraise
    \/ MetaData
    \/ MetaError

-----------------------------------------------------------------------------
(* Two concurrent callers of fetch_data_from_nse *)

\* The other caller.
Other(c) == CHOOSE o \in Callers : o # c

\* A GET of caller c: `jar` is the jar of the session when it is issued (for
\* a bootstrap, as the bootstrap left it), `own` the jar as c's own latest
\* bootstrap left it.
RaceEvent(c, op, ok, j, own) ==
    [caller |-> c, op |-> op, attempt |-> cattempt[c], ok |-> ok, jar |-> j, own |-> own]

\* Variant: a caller waits while the other one is between its bootstrap and
\* its data GET (the two are one critical section).
CanBootstrap_Locked(c) == cpc[Other(c)] # "get"

\* _fetch_cookies() takes no lock: it runs whenever its caller reaches it.
CanBootstrap(c) == TRUE

\* session.get(url, ...) sends the cookies of the module-level session as
\* they are when the request is prepared.
JarSent(c) == jar

RaceInit ==
    /\ cpc = [c \in Callers |-> "loop"]
    /\ cattempt = [c \in Callers |-> 0]
    /\ cboot = [c \in Callers |-> 0]
    /\ clog = <<>>
    /\ jar = 0
    \* no call of fetch_data_from_nse is followed outside the two callers
    /\ retries = DefaultRetries
    /\ delay = DefaultDelay
    /\ new_requests = TRUE
    /\ attempt = 0
    /\ fpc = "idle"
    /\ exc = NoError
    /\ errs = <<>>
    /\ io = <<>>
    /\ fret = Running
    \* no call of get_bhavcopy is in progress
    /\ bhavcopy_type = "equity"
    /\ date = [year |-> CutoffYear, month |-> 1, day |-> 1]
    /\ dir_exists = TRUE
    /\ files = EmptyDir
    /\ bpc = "idle"
    /\ url = NoUrl
    /\ content = NoContent
    /\ extracted = <<>>
    /\ bnet = <<>>
    /\ bexc = NoError
    /\ bret = BRunning
    /\ ncalls = 0
    /\ seen = {}
    /\ extras = {}
    \* no call of _split_date_range is in progress
    /\ from_date = DateMin
    /\ to_date = DateMin
    /\ max_chunk_size = DefaultChunkSize
    /\ current_start = DateMin
    /\ chunks = <<>>
    /\ spc = "idle"
    /\ sret = SRunning
    \* no call of a historical-data function is in progress
    /\ hfn = "equity"
    /\ series = <<"EQ">>
    /\ hpc = "idle"
    /\ chunk_idx = 1
    /\ all_data = <<>>
    /\ all_turnover_data = <<>>
    /\ hnet = <<>>
    /\ hcalls = <<>>
    /\ hret = HRunning
    \* no call of get_stock_quote, get_option_chain or get_equity_metadata is followed
    /\ qfn = "get_stock_quote"
    /\ symbol = "INFY"
    /\ qpc = "idle"
    /\ qret = QRunning

\* `for attempt in range(retries)` of caller c: the next iteration, or the
\* end of the function.
RaceLoopHead(c) ==
    /\ cpc[c] = "loop"
    /\ cpc' = [cpc EXCEPT ![c] = IF cattempt[c] < retries THEN "cookies" ELSE "done"]
    /\ UNCHANGED <<cattempt, cboot, clog, jar>>
    /\ UNCHANGED <<fetch_vars, bhav_vars, split_vars, hist_vars, quote_vars>>

\* _fetch_cookies() of caller c: the response's cookies are written to the
\* jar of the shared session; or session.get raises.
RaceFetchCookies(c) ==
    /\ cpc[c] = "cookies"
    /\ CanBootstrap(c)
    /\ \/ /\ jar' = jar + 1
          /\ cboot' = [cboot EXCEPT ![c] = jar + 1]
          /\ clog' = Append(clog, RaceEvent(c, "cookies", TRUE, jar + 1, jar + 1))
          /\ cpc' = [cpc EXCEPT ![c] = "get"]
       \/ /\ clog' = Append(clog, RaceEvent(c, "cookies", FALSE, jar, cboot[c]))
          /\ cpc' = [cpc EXCEPT ![c] = "except"]
          /\ UNCHANGED <<jar, cboot>>
    /\ UNCHANGED cattempt
    /\ UNCHANGED <<fetch_vars, bhav_vars, split_vars, hist_vars, quote_vars>>

\* session.get(url, ...) of caller c; raise_for_status(); return
\* response.json(), or a RequestException goes to the except clause.
RaceDataGet(c) ==
    /\ cpc[c] = "get"
    /\ \E ok \in BOOLEAN :
          /\ clog' = Append(clog, RaceEvent(c, "get", ok, JarSent(c), cboot[c]))
          /\ cpc' = [cpc EXCEPT ![c] = IF ok THEN "done" ELSE "except"]
    /\ UNCHANGED <<cattempt, cboot, jar>>
    /\ UNCHANGED <<fetch_vars, bhav_vars, split_vars, hist_vars, quote_vars>>

\* The except clause of caller c: sleep(delay) and the next attempt, or raise.
RaceExcept(c) ==
    /\ cpc[c] = "except"
    /\ IF cattempt[c] < retries - 1
         THEN /\ cattempt' = [cattempt EXCEPT ![c] = cattempt[c] + 1]
              /\ cpc' = [cpc EXCEPT ![c] = "loop"]
         ELSE /\ cpc' = [cpc EXCEPT ![c] = "done"]
              /\ UNCHANGED cattempt
    /\ UNCHANGED <<cboot, clog, jar>>
    /\ UNCHANGED <<fetch_vars, bhav_vars, split_vars, hist_vars, quote_vars>>

RaceNext ==
    \/ \E c \in Callers : RaceLoopHead(c)
    \/ \E c \in Callers : RaceFetchCookies(c)
    \/ \E c \in Callers : RaceDataGet(c)
    \/ \E c \in Callers : RaceExcept(c)

-----------------------------------------------------------------------------
(* Specifications *)

\* One call of fetch_data_from_nse, for every retries, delay and origin behaviour.
FetchSpec == FetchInit /\ [][FetchNext]_vars

\* Invocations of get_bhavcopy on one (bhavcopy_type, date, download_dir).
BhavSpec == BhavInit /\ [][BhavNext]_vars

\* One call of _split_date_range, for every pair of dates and chunk size above.
SplitSpec == SplitInit /\ [][SplitNext]_vars

\* One call of get_historical_equity_data or get_historical_index_data.
HistSpec == HistInit /\ [][HistNext]_vars

\* One call of get_stock_quote or get_option_chain, the fetch it makes
\* followed step by step.
QuoteSpec == QuoteInit /\ [][QuoteNext]_vars

\* One call of get_equity_metadata, the fetch it makes followed step by step.
MetaSpec == MetaInit /\ [][MetaNext]_vars

\* Two threads, each in one call of fetch_data_from_nse with the default
\* retries, interleaved at every GET.
RaceSpec == RaceInit /\ [][RaceNext]_vars

-----------------------------------------------------------------------------
(* Properties of fetch_data_from_nse (checked under FetchSpec) *)

NumEvents(log, op) == Cardinality({i \in 1..Len(log) : log[i].op = op})

NumEventsBefore(log, op, n) == Cardinality({i \in 1..(n - 1) : log[i].op = op})

\* An attempt starts with the bootstrap GET.
NumAttempts == NumEvents(io, "cookies")

\* requests.ConnectionError, requests.Timeout, requests.HTTPError
IsTransportOrHttp(e) == e.kind \in {"ConnectionError", "Timeout", "HTTPError"}

Is2xx(status) == 200 <= status /\ status < 300

FetchDone == fpc = "done"

\* C1: for retries >= 1, when every attempt fails with a transport/HTTP error
\* the call makes exactly `retries` attempts, sleeps exactly retries - 1 times,
\* each sleep of exactly `delay` seconds and each between two consecutive
\* attempts, does not sleep after the last failed attempt, and raises.
C1_ExhaustsRetriesThenRaises ==
    (/\ FetchDone
     /\ retries >= 1
     /\ \A k \in 1..Len(errs) : IsTransportOrHttp(errs[k]))
    => /\ fret.status = "raised"
       /\ Len(errs) = retries
       /\ NumAttempts = retries
       /\ NumEvents(io, "sleep") = retries - 1
       /\ io[Len(io)].op # "sleep"
       /\ \A i \in 1..Len(io) :
             io[i].op = "sleep" =>
                /\ io[i].secs = delay
                /\ 1 < i /\ i < Len(io)
                /\ io[i - 1].op \in {"cookies", "get"}
                /\ io[i - 1].attempt = io[i].attempt
                /\ io[i + 1].op = "cookies"
                /\ io[i + 1].attempt = io[i].attempt + 1

C1_Witness ==
    /\ FetchDone
    /\ retries = 3
    /\ delay = 2
    /\ fret.status = "raised"
    /\ Len(errs) = 3
    /\ \A k \in 1..Len(errs) : IsTransportOrHttp(errs[k])
    /\ NumEvents(io, "sleep") = 2

\* C2: when the retry budget is exhausted, the error raised is the error of
\* the last attempt, kind and message unchanged: not wrapped, not the error of
\* an earlier attempt.
C2_RaisesLastErrorUnchanged ==
    (FetchDone /\ fret.status = "raised" /\ Len(errs) = retries)
    => /\ fret.error = errs[retries]
       /\ fret.error.kind = errs[retries].kind
       /\ fret.error.msg = errs[retries].msg

C2_Witness ==
    /\ FetchDone
    /\ retries = 3
    /\ Len(errs) = 3
    /\ errs[1] = [kind |-> "ConnectionError", msg |-> "m1"]
    /\ errs[3] = [kind |-> "Timeout", msg |-> "m2"]
    /\ fret = Raised([kind |-> "Timeout", msg |-> "m2"])

\* C3, as claimed: whenever the data GET of attempt k got an HTTP success, the
\* call has returned that response's parsed JSON, nothing was issued after
\* that GET and exactly k - 1 sleeps came before it.
C3_AsClaimed ==
    \A i \in 1..Len(io) :
       (io[i].op = "get" /\ io[i].ok /\ Is2xx(io[i].resp.status))
       => /\ i = Len(io)
          /\ FetchDone
          /\ fret = Returned(ParseJson(io[i].resp.body).value)
          /\ NumEventsBefore(io, "sleep", i) = io[i].attempt

\* C3, amended: the same when the body of the 2xx response is valid JSON.
\* (io[i].attempt is k - 1: attempts are numbered from 0 in the loop.)
C3_ParsedSuccessReturnsAtOnce ==
    \A i \in 1..Len(io) :
       (/\ io[i].op = "get" /\ io[i].ok /\ Is2xx(io[i].resp.status)
        /\ ParseJson(io[i].resp.body).ok)
       => /\ i = Len(io)
          /\ FetchDone
          /\ fret = Returned(ParseJson(io[i].resp.body).value)
          /\ NumEventsBefore(io, "sleep", i) = io[i].attempt

C3_Witness ==
    /\ FetchDone
    /\ retries = 3
    /\ Len(errs) = 2
    /\ io[Len(io)].op = "get"
    /\ io[Len(io)].resp = [status |-> 200, body |-> "{\"key\": \"value\"}"]
    /\ fret = Returned("{'key': 'value'}")
    /\ NumEvents(io, "sleep") = 1

\* The first two attempts ended with an error the except clause retries.
FailedTwice ==
    /\ Len(errs) >= 2
    /\ IsRequestException(errs[1])
    /\ IsRequestException(errs[2])

\* C4, as claimed: with retries = 3, a call whose first two attempts failed and
\* which then succeeded has returned without making a 3rd attempt.
C4_AsClaimed ==
    (FetchDone /\ retries = 3 /\ FailedTwice /\ fret.status = "returned")
    => NumAttempts < 3

\* C4, amended: with retries = 3, after two failed attempts the 3rd attempt is
\* made; when it succeeds its JSON payload is returned, after exactly 3
\* attempts and 2 sleeps, and nothing is issued after the successful GET.
C4_ThirdAttemptIsMadeAndReturned ==
    (FetchDone /\ retries = 3 /\ FailedTwice)
    => /\ Len(errs) = 3
       /\ NumAttempts = 3
       /\ NumEvents(io, "sleep") = 2
       /\ errs[3] = NoError =>
             /\ io[Len(io)].op = "get"
             /\ io[Len(io)].attempt = 2
             /\ fret = Returned(ParseJson(io[Len(io)].resp.body).value)

C4_Witness ==
    /\ FetchDone
    /\ retries = 3
    /\ FailedTwice
    /\ Len(errs) = 3
    /\ errs[3] = NoError
    /\ NumAttempts = 3
    /\ fret = Returned("{'key': 'value'}")

\* C5: every data GET is immediately preceded by a successful cookie
\* bootstrap GET of the same attempt, in the first attempt and in every retry.
C5_CookiesBeforeEveryDataGet ==
    \A i \in 1..Len(io) :
       io[i].op = "get"
       => /\ i > 1
          /\ io[i - 1].op = "cookies"
          /\ io[i - 1].ok
          /\ io[i - 1].attempt = io[i].attempt

C5_Witness ==
    /\ retries = 3
    /\ \E i \in 1..Len(io) : io[i].op = "get" /\ io[i].attempt = 0
    /\ \E i \in 1..Len(io) : io[i].op = "get" /\ io[i].attempt = 2

\* C6: a failed cookie bootstrap ends its attempt: neither the data GET of
\* that attempt nor a second bootstrap of that attempt follows it; and when
\* the bootstrap fails in every attempt (retries >= 1), the call has issued
\* exactly `retries` GET requests when it raises.
C6_BootstrapErrorUsesOneAttempt ==
    /\ \A i \in 1..Len(io) :
          (io[i].op = "cookies" /\ ~io[i].ok)
          => /\ Len(errs) >= io[i].attempt + 1
             /\ errs[io[i].attempt + 1] # NoError
             /\ \A j \in (i + 1)..Len(io) : io[j].attempt # io[i].attempt \/ io[j].op = "sleep"
    /\ (/\ FetchDone
        /\ retries >= 1
        /\ \A i \in 1..Len(io) : io[i].op = "cookies" => ~io[i].ok)
       => /\ fret.status = "raised"
          /\ NumEvents(io, "cookies") + NumEvents(io, "get") = retries

C6_Witness ==
    /\ FetchDone
    /\ retries = 3
    /\ fret.status = "raised"
    /\ NumEvents(io, "cookies") = 3
    /\ NumEvents(io, "get") = 0
    /\ \A i \in 1..Len(io) : io[i].op = "cookies" => ~io[i].ok

\* C26: a call with retries <= 0 issues no request, performs no sleep and
\* raises no error; it returns None, the value returned for a successful
\* response whose JSON body is null.
C26_NoRetriesReturnsNone ==
    retries <= 0
    => /\ io = <<>>
       /\ errs = <<>>
       /\ fret.status # "raised"
       /\ FetchDone => /\ fret = Returned("None")
                       /\ fret = Returned(ParseJson("null").value)

C26_Witness ==
    /\ FetchDone
    /\ retries <= 0
    /\ io = <<>>
    /\ fret = Returned("None")

\* C27: an error that is no requests.RequestException is not retried: it is
\* the error of the last attempt made, the call has raised it unchanged, the
\* data GET that produced it is the last thing the call did (no sleep, no
\* further attempt), whatever the number of attempts left.
C27_OnlyRequestExceptionsRetried ==
    \A k \in 1..Len(errs) :
       (errs[k] # NoError /\ errs[k].kind \notin RequestExceptionKinds)
       => /\ k = Len(errs)
          /\ FetchDone
          /\ fret = Raised(errs[k])
          /\ io[Len(io)].op = "get"
          /\ io[Len(io)].attempt = k - 1
          /\ NumEvents(io, "sleep") = k - 1
          /\ NumAttempts = k

C27_Witness ==
    /\ FetchDone
    /\ retries = 3
    /\ Len(errs) = 2
    /\ IsRequestException(errs[1])
    /\ errs[2].kind = "ValueError"
    /\ fret = Raised(errs[2])
    /\ NumEvents(io, "sleep") = 1

-----------------------------------------------------------------------------
(* Properties of get_bhavcopy (checked under BhavSpec) *)

BhavDone == bpc = "done"

\* C7, as claimed: a call with a report type outside the seven known ones
\* raises ValueError and issues no network request (no bootstrap, no download).
C7_InvalidTypeRaisesValueError ==
    (BhavDone /\ bhavcopy_type \notin BhavTypes)
    => /\ bret.status = "raised"
       /\ bret.error.kind = "ValueError"
       /\ bnet = <<>>

\* C8, as claimed: the download follows the retry contract of the JSON fetch:
\* when the download request fails, the failure is reported only after the
\* budget of 3 attempts, each with its cookie refresh, with a sleep between
\* consecutive attempts.
C8_DownloadIsRetried ==
    (/\ BhavDone
     /\ bret.status = "raised"
     /\ bret.error.kind = "FileNotFoundError"
     /\ \E i \in 1..Len(bnet) : bnet[i].op = "get")
    => /\ NumEvents(bnet, "cookies") = DefaultRetries
       /\ NumEvents(bnet, "get") = DefaultRetries
       /\ NumEvents(bnet, "sleep") = DefaultRetries - 1

\* The three failure kinds of the pipeline, by the exception first raised.
FailureKind(k) ==
    IF k \in RequestExceptionKinds THEN "download failed"
    ELSE IF k \in {"BadZipFile", "BadGzipFile"} THEN "invalid archive"
    ELSE IF k = "OSError" THEN "storage operation failed"
    ELSE "other"

\* C9, as claimed: two failures of different kinds (download failed, invalid
\* archive, storage operation failed) never reach the caller as the same kind
\* of error.
C9_FailureKindsDistinguishable ==
    \A a \in seen : \A b \in seen :
       (/\ FailureKind(a.exc) # "other"
        /\ FailureKind(b.exc) # "other"
        /\ FailureKind(a.exc) # FailureKind(b.exc))
       => a.error.kind # b.error.kind

\* C10: for equity the URL is chosen by the year alone, with cutoff 2024: the
\* BhavCopy_NSE_CM_0_0_0_{YYYYMMDD}_F_0000.csv.zip template from 2024-01-01
\* on, the historical/EQUITIES/{YYYY}/{MON}/cm{DDMONYYYY}bhav.csv.zip template
\* up to 2023-12-31; in get_bhavcopy and in download_bhavcopy alike.
C10_EquityUrlChosenByYear ==
    (bhavcopy_type = "equity" /\ url # NoUrl)
    => /\ date.year >= 2024 =>
             /\ url = EquityUrlNew(date)
             /\ download_bhavcopy_url(date) = EquityUrlNew(date)
       /\ date.year <= 2023 =>
             /\ url = EquityUrlLegacy(date)
             /\ download_bhavcopy_url(date) = EquityUrlLegacy(date)
       /\ date = [year |-> 2024, month |-> 1, day |-> 1] =>
             url = <<"https://nsearchives.nseindia.com/content/cm/",
                     "BhavCopy_NSE_CM_0_0_0_", "2", "0", "2", "4", "0", "1", "0", "1",
                     "_F_0000.csv.zip">>
       /\ date = [year |-> 2023, month |-> 12, day |-> 31] =>
             url = <<"https://nsearchives.nseindia.com/content/historical/",
                     "EQUITIES/", "2", "0", "2", "3", "/", "DEC", "/", "cm",
                     "3", "1", "DEC", "2", "0", "2", "3", "bhav.csv.zip">>

C10_Witness ==
    /\ bhavcopy_type = "equity"
    /\ date = [year |-> 2024, month |-> 1, day |-> 1]
    /\ url = EquityUrlNew(date)
    /\ bpc = "cookies"

\* The download of a ZIP report type answered by an archive of one file.
OneFileZip ==
    /\ bhavcopy_type \in ZipTypes
    /\ content.fmt = "zip"
    /\ Len(content.members) = 1

\* C11, as claimed: when a ZIP report type receives a ZIP of exactly one inner
\* file, on return {report_type}_bhavcopy_{YYYYMMDD}.csv exists with the inner
\* file's content and is the returned path, the inner file no longer exists
\* under its original name and the intermediate .zip no longer exists.
C11_AsClaimed ==
    (BhavDone /\ bret.status = "returned" /\ OneFileZip)
    => /\ CsvPath \in DOMAIN files
       /\ files[CsvPath] = RawBytes(content.members[1].data)
       /\ bret.path = CsvPath
       /\ content.members[1].name \notin DOMAIN files
       /\ SavePath \notin DOMAIN files

\* C11, amended: the same, the inner file being gone under its original name
\* when that name is not already the destination name (then nothing is
\* renamed and the extracted file is the destination file).
C11_ZipLeavesRenamedCsvOnly ==
    (BhavDone /\ bret.status = "returned" /\ OneFileZip)
    => /\ CsvPath \in DOMAIN files
       /\ files[CsvPath] = RawBytes(content.members[1].data)
       /\ bret.path = CsvPath
       /\ content.members[1].name # CsvPath => content.members[1].name \notin DOMAIN files
       /\ SavePath \notin DOMAIN files

C11_Witness ==
    /\ BhavDone
    /\ bret = BReturned(CsvPath)
    /\ bhavcopy_type = "equity"
    /\ date = [year |-> 2024, month |-> 1, day |-> 1]
    /\ content = Blob("zip", <<Member(OriginInner("equity", date), "d1")>>, "")
    /\ files = WriteFile(EmptyDir, FileName("equity", date, ".csv"), RawBytes("d1"))

\* cm{DDMonYYYY}bhav.csv
LegacyCsvName(d) == <<"cm">> \o DMonY(d) \o <<"bhav.csv">>

\* C12, as claimed: the CSV an equity download leaves on disk is named
\* cm{DDMonYYYY}bhav.csv for a date before 2024 and
\* equity_bhavcopy_{YYYYMMDD}.csv for a date from 2024 on.
C12_EquityCsvNamedByYear ==
    (BhavDone /\ bret.status = "returned" /\ bhavcopy_type = "equity" /\ OneFileZip)
    => IF date.year < CutoffYear
         THEN /\ bret.path = LegacyCsvName(date)
              /\ LegacyCsvName(date) \in DOMAIN files
         ELSE /\ bret.path = FileName("equity", date, ".csv")
              /\ FileName("equity", date, ".csv") \in DOMAIN files

\* Every invocation so far has returned.
AllSucceeded == BhavDone /\ bret.status = "returned" /\ seen = {}

\* The directory one successful invocation leaves, starting from an empty
\* directory, when the download is answered with payload c.
AfterOneCall(t, d, c) ==
    LET zip == FileName(t, d, ".zip")
        csv == FileName(t, d, ".csv")
    IN IF t \in ZipTypes
         THEN LET ext == ExtractMembers(WriteFile(EmptyDir, zip, c), c.members, Len(c.members))
                  inner == c.members[1].name
              IN RemoveFile(IF inner # csv THEN RenameFile(ext, inner, csv) ELSE ext, zip)
       ELSE IF t = "cm_mii"
         THEN WriteFile(EmptyDir, csv, RawBytes(c.data))
       ELSE WriteFile(EmptyDir, csv, c)

DownloadedAgain == \E i \in 1..Len(bnet) : bnet[i] = BEvent("get", TRUE)

C25_UnknownTypeLeavesFilesystem ==
    [][(bhavcopy_type \notin BhavTypes)
       => (dir_exists' = dir_exists /\ files' = files)]_vars

\* C28: when a call on an empty directory has finished, by return or by
\* raise, the compressed file it saved the response to (.zip or .gz) is not in
\* the directory.
C28_NoCompressedFileRemains ==
    (/\ BhavDone
     /\ ncalls = 1
     /\ SaveSuffix(bhavcopy_type) \in {".zip", ".gz"})
    => SavePath \notin DOMAIN files

\* The download request of the call in progress failed: session.get raised,
\* or raise_for_status() raised on the response.
DownloadFailed ==
    /\ BhavDone
    /\ bret.status = "raised"
    /\ Len(bnet) > 0
    /\ bnet[Len(bnet)].op = "get"
    /\ bexc.kind \in TransportKinds \cup {"HTTPError"}

\* C29: no step of a call up to and including its download request creates,
\* changes or deletes a file of the directory, so a call whose download
\* request fails leaves every file, an earlier destination CSV included, as it
\* found it.
C29_FailedDownloadTouchesNoFile ==
    [][(bpc \in {"mkdir", "url", "cookies", "download"}) => (files' = files)]_vars

C29_Witness ==
    /\ DownloadFailed
    /\ ncalls = 2
    /\ bhavcopy_type = "delivery"
    /\ SavePath = CsvPath
    /\ files = WriteFile(EmptyDir, CsvPath, RawBytes("d1"))

-----------------------------------------------------------------------------
(* Properties of _split_date_range (checked under SplitSpec) *)

SplitReturned == spc = "done" /\ sret.status = "returned"

\* Number of days of the inclusive range from_date..to_date.
RangeDays == to_date - from_date + 1

CeilDiv(a, b) == (a + b - 1) \div b

ChunkDays(c) == c[2] - c[1] + 1

\* C14: for from_date <= to_date and max_chunk_size >= 1 the chunks returned
\* partition the range: the first chunk starts at from_date, the last ends at
\* to_date, every chunk has start <= end, and each next chunk starts exactly
\* one day after the previous chunk's end.
C14_ChunksPartitionTheRange ==
    (SplitReturned /\ from_date <= to_date /\ max_chunk_size >= 1)
    => LET c == sret.chunks
       IN /\ Len(c) >= 1
          /\ c[1][1] = from_date
          /\ c[Len(c)][2] = to_date
          /\ \A i \in 1..Len(c) : c[i][1] <= c[i][2]
          /\ \A i \in 1..(Len(c) - 1) : c[i + 1][1] = c[i][2] + 1

C14_Witness ==
    /\ SplitReturned
    /\ from_date = MidDay
    /\ to_date = MidDay + 4
    /\ max_chunk_size = 2
    /\ sret.chunks = <<<<MidDay, MidDay + 1>>, <<MidDay + 2, MidDay + 3>>,
                       <<MidDay + 4, MidDay + 4>>>>

C16_InvalidRangeRaisesValueError ==
    from_date > to_date
    => /\ spc \in {"check", "done"}
       /\ chunks = <<>>
       /\ spc = "done" =>
             /\ sret.status = "raised"
             /\ sret.error.kind = "ValueError"
             /\ sret.chunks = <<>>

C16_Witness ==
    /\ spc = "done"
    /\ from_date = MidDay + 1
    /\ to_date = MidDay
    /\ max_chunk_size = 0
    /\ sret.status = "raised"
    /\ sret.error.kind = "ValueError"

\* C30: for every from_date <= to_date and every integer max_chunk_size,
\* each iteration of the while loop leaves current_start strictly later than
\* it found it (so the loop ends).
C30_EveryIterationAdvances ==
    [][(spc = "loop" /\ spc' = "loop" /\ chunks' # chunks)
       => current_start' > current_start]_vars

-----------------------------------------------------------------------------
(* Properties of the historical-data functions (checked under HistSpec) *)

HistDone == hpc = "done"

\* The loop over date_chunks has run to its end.
ChunkLoopDone == HistDone /\ spc = "done" /\ sret.status = "returned"

\* The fetches of the chunked path, in the order they were made.
ChunkLog == SelectSeq(hnet, LAMBDA ev : ev.path = "chunk")

\* The chunks whose fetch gave records back.
YieldedData(ev) == ev.result.kind = "page" /\ ev.result.data # <<>>
YieldedTurnover(ev) == ev.result.kind = "page" /\ ev.result.turnover # <<>>

RECURSIVE NumData(_, _)
NumData(log, n) ==
    IF n = 0 THEN 0 ELSE NumData(log, n - 1) + Len(log[n].result.data)

RECURSIVE NumTurnover(_, _)
NumTurnover(log, n) ==
    IF n = 0 THEN 0 ELSE NumTurnover(log, n - 1) + Len(log[n].result.turnover)

Elems(seq) == {seq[i] : i \in 1..Len(seq)}

\* The position in date_chunks of the chunk that record r belongs to.
ChunkOf(r) == CHOOSE i \in 1..Len(date_chunks) : date_chunks[i][1] <= r /\ r <= date_chunks[i][2]

InChunkOrder(seq) ==
    \A p \in 1..Len(seq) : \A q \in (p + 1)..Len(seq) : ChunkOf(seq[p]) <= ChunkOf(seq[q])

\* C17: a chunk whose fetch fails is skipped and the query goes on: every
\* chunk is fetched, in ascending order, whatever happened to the chunks
\* before it; and when at least one chunk yields records the call returns
\* the records of exactly the chunks that gave some, in ascending chunk
\* order, none lost and none twice.
C17_FailedChunkIsSkipped ==
    ChunkLoopDone
    => /\ Len(ChunkLog) = Len(date_chunks)
       /\ \A i \in 1..Len(ChunkLog) : ChunkLog[i].chunk = date_chunks[i]
       /\ (\E i \in 1..Len(ChunkLog) : YieldedData(ChunkLog[i]) \/ YieldedTurnover(ChunkLog[i]))
          => /\ hret.status = "returned"
             /\ Len(hret.data) = NumData(ChunkLog, Len(ChunkLog))
             /\ Elems(hret.data) = UNION {Elems(ChunkLog[i].result.data) : i \in 1..Len(ChunkLog)}
             /\ InChunkOrder(hret.data)
             /\ Len(hret.turnover) = NumTurnover(ChunkLog, Len(ChunkLog))
             /\ Elems(hret.turnover) =
                   UNION {Elems(ChunkLog[i].result.turnover) : i \in 1..Len(ChunkLog)}
             /\ InChunkOrder(hret.turnover)

C17_Witness ==
    /\ ChunkLoopDone
    /\ hfn = "equity"
    /\ Len(ChunkLog) = 3
    /\ YieldedData(ChunkLog[1])
    /\ ChunkLog[2].result = FetchRaised
    /\ YieldedData(ChunkLog[3])
    /\ hret.status = "returned"
    /\ Len(hret.data) = 4

\* C18, as claimed: get_historical_equity_data never returns an empty list;
\* when no record was obtained the call ends with the 'no data found' error.
C18_NeverReturnsEmpty ==
    (HistDone /\ hfn = "equity" /\ from_date <= to_date)
    => IF hret.status = "returned"
         THEN hret.data # <<>>
         ELSE hret.error.msg = "No historical data found"

IsDescending(seq) == \A i \in 1..(Len(seq) - 1) : seq[i] > seq[i + 1]

IsAscending(seq) == \A i \in 1..(Len(seq) - 1) : seq[i] < seq[i + 1]

\* C19: when every page the origin sent is in descending date order, the list
\* get_historical_equity_data returns is in ascending date order over the
\* whole result, on the simple path and on the chunked path.
C19_ResultIsChronological ==
    (/\ HistDone
     /\ hfn = "equity"
     /\ hret.status = "returned"
     /\ \A i \in 1..Len(hnet) : IsDescending(hnet[i].result.data))
    => IsAscending(hret.data)

C19_Witness ==
    /\ ChunkLoopDone
    /\ hfn = "equity"
    /\ hret.status = "returned"
    /\ Len(ChunkLog) = 2
    /\ Len(ChunkLog[1].result.data) = 3
    /\ IsDescending(ChunkLog[1].result.data)
    /\ Len(ChunkLog[2].result.data) = 1
    /\ Len(hret.data) = 4
    /\ IsAscending(hret.data)

\* The simple path of get_historical_equity_data on a page in descending order.
C19_WitnessSimplePath ==
    /\ HistDone
    /\ hret.status = "returned"
    /\ Len(hnet) = 1
    /\ hnet[1].path = "short"
    /\ Len(hnet[1].result.data) = 4
    /\ IsDescending(hnet[1].result.data)
    /\ Len(hret.data) = 2

\* HTTP attempts made by the calls of fetch_data_from_nse that have ended.
RECURSIVE HttpAttempts(_)
HttpAttempts(log) ==
    IF log = <<>> THEN 0 ELSE log[1].attempts + HttpAttempts(Tail(log))

\* C23: in the loop over date_chunks of either function the calls of
\* fetch_data_from_nse and their ends alternate: the n-th call is for the n-th
\* chunk, chunks are taken in ascending order, a call starts only after the
\* call before it has ended, whatever its outcome; when the loop is over
\* every chunk was fetched exactly once and the HTTP attempts made are at most
\* (number of chunks) * retries.
C23_OneFetchPerChunkInOrder ==
    /\ \A i \in 1..Len(hcalls) :
          LET n == (i + 1) \div 2
          IN /\ n <= Len(date_chunks)
             /\ hcalls[i].chunk = date_chunks[n]
             /\ hcalls[i].op = (IF i % 2 = 1 THEN "call" ELSE "end")
             /\ i > 2 => hcalls[i - 2].chunk[2] < hcalls[i].chunk[1]
    /\ hpc = "fetch" <=> (Len(hcalls) % 2 = 1)
    /\ HttpAttempts(hcalls) <= Len(date_chunks) * DefaultRetries
    /\ ChunkLoopDone => Len(hcalls) = 2 * Len(date_chunks)

C23_Witness ==
    /\ ChunkLoopDone
    /\ Len(date_chunks) = 3
    /\ hcalls[2].outcome = "raise"
    /\ hcalls[2].attempts = DefaultRetries
    /\ hcalls[3].op = "call"
    /\ hcalls[4].outcome = "page"
    /\ hcalls[6].outcome = "none"
    /\ HttpAttempts(hcalls) = 3 * DefaultRetries

\* C22: a call of any of the five date-range operations with both dates
\* given and from_date > to_date has raised ValueError when it ends, and no
\* call of fetch_data_from_nse (so no request, no cookie bootstrap) was made.
C22_ReversedRangeFailsBeforeNetwork ==
    (HistDone /\ from_date > to_date)
    => /\ hret.status = "raised"
       /\ hret.error.kind = "ValueError"
       /\ hnet = <<>>
       /\ hcalls = <<>>

-----------------------------------------------------------------------------
(* Properties of get_stock_quote and get_option_chain (checked under QuoteSpec) *)

QuoteDone == qpc = "done"

\* C20, as claimed: when the fetch ends with an HTTP error of status 404 the
\* call raises ValueError 'Invalid symbol: <symbol>'; when it ends with an
\* HTTP error of another status or with a transport error that is not an
\* HTTP error, the call raises a generic failure.
C20_NotFoundIsInvalidSymbol ==
    (QuoteDone /\ fret.status = "raised" /\ IsTransportOrHttp(fret.error))
    => IF fret.error.kind = "HTTPError" /\ ErrorResponse.status = 404
         THEN qret = QRaised(QError("ValueError", "Invalid symbol: ", symbol))
         ELSE qret.status = "raised" /\ qret.error.kind = "Exception"

-----------------------------------------------------------------------------
(* Properties of get_equity_metadata (checked under MetaSpec) *)

MetaDone == qpc = "done"

\* The endpoint answered, but the payload is empty or lacks `symbol` or
\* `companyName`.
DataShapeFailure ==
    /\ fret.status = "returned"
    /\ \/ IsEmptyData(fret.value)
       \/ ~MetaHasSymbol(fret.value)
       \/ ~MetaHasCompanyName(fret.value)

\* C21: a call that ends on a data-shape failure has raised ValueError, a
\* call whose fetch raised has raised an error of another kind, for every
\* symbol.
C21_ShapeFailureDiffersFromFetchFailure ==
    MetaDone
    => /\ DataShapeFailure => (qret.status = "raised" /\ qret.error.kind = "ValueError")
       /\ fret.status = "raised" => (qret.status = "raised" /\ qret.error.kind # "ValueError")

-----------------------------------------------------------------------------
(* Properties of two concurrent callers (checked under RaceSpec) *)

\* The successful bootstrap GETs of the other caller among clog[a+1..b-1].
BootstrapsBetween(c, a, b) ==
    Cardinality({j \in (a + 1)..(b - 1) :
                    clog[j].caller # c /\ clog[j].op = "cookies" /\ clog[j].ok})

\* The position in clog of the latest successful bootstrap of c before i.
OwnBootstrap(c, i) ==
    CHOOSE a \in 1..(i - 1) :
       /\ clog[a].caller = c /\ clog[a].op = "cookies" /\ clog[a].ok
       /\ \A b \in (a + 1)..(i - 1) : clog[b].caller # c

\* C24: nothing keeps a caller's bootstrap out of the window between the
\* other caller's bootstrap and that caller's data GET: whenever one caller is
\* in that window and the other has reached its bootstrap, the bootstrap can
\* run; and every data GET presents the jar as its caller's own bootstrap
\* left it, rewritten once per bootstrap the other caller made in between.
C24_BootstrapNotExcluded ==
    /\ \A c \in Callers :
          (cpc[c] = "get" /\ cpc[Other(c)] = "cookies") => ENABLED RaceFetchCookies(Other(c))
    /\ \A i \in 1..Len(clog) :
          clog[i].op = "get"
          => LET c == clog[i].caller
                 a == OwnBootstrap(c, i)
             IN /\ clog[i].own = clog[a].jar
                /\ clog[i].jar = clog[a].jar + BootstrapsBetween(c, a, i)

\* One caller's bootstrap rewrote the shared jar between the other caller's
\* bootstrap and that caller's data GET, which then presented the rewritten
\* jar.
C24_Witness ==
    \E i \in 3..Len(clog) :
       /\ clog[i].op = "get"
       /\ clog[i].caller = "stock_quote"
       /\ clog[i - 1] = RaceEvent("market_status", "cookies", TRUE, clog[i].jar, clog[i].jar)
       /\ clog[i - 2].caller = "stock_quote"
       /\ clog[i - 2].op = "cookies"
       /\ clog[i - 2].ok
       /\ clog[i].own = clog[i - 2].jar
       /\ clog[i].jar # clog[i].own

=============================================================================
